---- MODULE Spec2Model ----
(***************************************************************************)
(* A model of netgen-rs: the topology lifecycle engine that materialises a *)
(* declarative topology (routers as network namespaces, switches as        *)
(* bridges, links as veth pairs) and tears it down again.                  *)
(*                                                                         *)
(* Several specifications share this module.                               *)
(*   Spec      the power-on engine at the level of netlink requests:       *)
(*             Topology::power_on, setup_links / LinkManager::setup_all,   *)
(*             create_link, attach_link, add_iface_addresses, and          *)
(*             Topology::power_off on what power-on left.                  *)
(*   SpecLife  the start / stop commands at the level of processes and     *)
(*             files: the main/.pid guard, mount_device, the holder        *)
(*             children running create_ns, enter_ns, and teardown; the     *)
(*             commands run one after the other.                           *)
(*   SpecRace  the same commands with two starts running at once.          *)
(*   SpecFault the start command with a failure injected into create_ns.   *)
(*   SpecLoad  the loader, Topology::from_yaml_str, on YAML documents.     *)
(*   SpecProc  one start command followed through every process it forks. *)
(*   SpecInNs  one call of Router::in_ns.                                  *)
(***************************************************************************)
EXTENDS Integers, Sequences, FiniteSets, TLC

\* ------------------------------------------------------------------ bounds
\* How many failures the environment injects into one run (a netlink request,
\* a syscall or a fork that fails).
MaxFaults == 1

\* The documents considered declare two nodes, "a" and "b", each a router or a
\* switch, and up to two links. A node is identified by its rank in the
\* ascending order in which BTreeMap<String, Node> iterates.
NameOrder == <<"a", "b">>
NodeIds == 1..Len(NameOrder)
NoNode == Len(NameOrder) + 1
\* Interface names a document may use; "a" is also the name of node 1.
IfNames == {"a", "p"}
\* The interim names "eth-XXXX", one fresh draw per link and side.
TmpNames == <<"eth-0001", "eth-0002", "eth-0003", "eth-0004",
              "eth-0005", "eth-0006", "eth-0007", "eth-0008">>
\* The interfaces every router is configured with: one without addresses,
\* one with an IPv4 and an IPv6 address (ipv4 list first, then ipv6).
RouterIfaces == << [name |-> "a", addresses |-> <<>>],
                   [name |-> "p", addresses |-> <<"v4", "v6">>] >>

Link == [src_device : NodeIds, src_iface : IfNames,
         dst_device : NodeIds, dst_iface : IfNames]

\* Link::src and Link::dst of a link the engine works on. The engine's names
\* hold no ':', so the joined string and the pair say the same; the loader's
\* Link_src and Link_dst below make the join itself.
src(link) == <<link.src_device, link.src_iface>>
dst(link) == <<link.dst_device, link.dst_iface>>

\* Topology::link_exists: the same endpoints, in the same or in swapped order.
link_exists(ls, link) ==
    \E i \in 1..Len(ls) :
        \/ (src(link) = src(ls[i]) /\ dst(link) = dst(ls[i]))
        \/ (src(link) = dst(ls[i]) /\ dst(link) = src(ls[i]))

RECURSIVE LinkSeqs(_)
\* The link lists the loader can produce: every link pushed passed link_exists.
LinkSeqs(k) ==
    IF k = 0 THEN {<<>>}
    ELSE LET shorter == LinkSeqs(k - 1) IN
         shorter \cup {Append(ls, l) : <<ls, l>> \in
                          {p \in shorter \X Link :
                              Len(p[1]) = k - 1 /\ ~link_exists(p[1], p[2])}}

\* The link lists of the documents considered.
Documents == LinkSeqs(2)

VARIABLES
    \* ---- the engine (Spec)
    impl,        \* which of the two link set-ups in the source runs
    nodes,       \* Topology.nodes: node id -> "Router" | "Switch"
    links,       \* Topology.links
    pc,          \* position of the controlling thread in power_on
    cursor,      \* loop index (node id or link index)
    phase,       \* inside create_link: "veth" | "src" | "dst"
    kifaces,     \* kernel interfaces other than lo; ifindex = position
    file_path,   \* Router.file_path is Some
    anchor,      \* the router's anchor file: "absent" | "mounted"
    sw_ifindex,  \* Switch.ifindex (0: None)
    loUp,        \* loopback of the router's namespace is up
    addrs,       \* addresses added: <<ifindex, address>>
    cur_ns,      \* net namespace of the controlling thread (0: main)
    linkResult,  \* what create_link returned per link
    log,         \* the netlink requests that succeeded, in order
    faults,      \* environment failures injected so far
    \* ---- the lifecycle (SpecLife)
    conc,        \* how many start commands the scenario runs at once
    top,         \* NS_DIR and DEVICES_NS_DIR exist
    fs,          \* per device: its home directory, anchors, mounts, .pid
    inv,         \* the start commands: position, document, forked child
    holder,      \* the holder children, per start command and device
    alive,       \* host pids of the live processes of the model
    nextPid,     \* the next host pid fork hands out
    killed,      \* host pids teardown sent SIGKILL to
    passed,      \* start commands that passed the guard since the last stop
    stops,       \* stop commands run so far
    last,        \* the last stop: result, document, state it started from
    \* ---- the loader (SpecLoad)
    yaml_str,    \* the YAML documents of the file, as the tokenizer reads them
    loaded,      \* what Topology::from_yaml_str made of them
    \* ---- the processes of one start (SpecProc)
    procs,       \* every process forked so far: position, pid, namespace
    nspids,      \* per pid namespace: the pid its next process gets
    setups,      \* the processes that ran Topology::setup_links, in order
    \* ---- one call of Router::in_ns (SpecInNs)
    returned,    \* what in_ns returned ("none": not called yet)
    ran          \* the namespaces the closure ran in, in order

engineVars == <<impl, nodes, links, pc, cursor, phase, kifaces, file_path,
                anchor, sw_ifindex, loUp, addrs, cur_ns, linkResult, log, faults>>
lifeVars == <<conc, top, fs, inv, holder, alive, nextPid, killed, passed, stops,
              last>>
loadVars == <<yaml_str, loaded>>
procVars == <<procs, nspids, setups>>
callVars == <<returned, ran>>
vars == <<engineVars, lifeVars, loadVars, procVars, callVars>>

\* ------------------------------------------------------------ engine: helpers

Ev(op, n, l, s) == [op |-> op, node |-> n, link |-> l, side |-> s]

\* Which failures the environment may still inject at a step.
FaultChoices(S) == IF faults < MaxFaults THEN S \cup {"none"} ELSE {"none"}
Charge(f) == IF f = "none" THEN faults ELSE faults + 1

\* if_nametoindex in namespace ns (0 when there is no such interface).
if_nametoindex(k, ns, name) ==
    LET S == {i \in 1..Len(k) : k[i].ns = ns /\ k[i].name = name} IN
    IF S = {} THEN 0 ELSE CHOOSE i \in S : TRUE

NameTaken(k, ns, name, but) ==
    \E j \in 1..Len(k) : j # but /\ k[j].ns = ns /\ k[j].name = name

Routers == {n \in NodeIds : nodes[n] = "Router"}
NextRouter(c) ==
    LET S == {n \in Routers : n >= c} IN
    IF S = {} THEN NoNode
    ELSE CHOOSE n \in S : \A m \in S : n <= m

\* The outcome of one engine step: what the call returned, the kernel's
\* interfaces and the thread's namespace afterwards, the requests that
\* succeeded, and whether the injected failure f was met.
Step(res, k, ns, evs, hit) ==
    [res |-> res, k |-> k, ns |-> ns, evs |-> evs, hit |-> hit]

\* LinkManager returns the typed error; Topology's older code unwraps.
OnError == IF impl = "LinkManager" THEN "Err" ELSE "Panic"

\* One RTM_SETLINK carrying a new name and the up flag: the kernel applies the
\* name first and gives up on a clash, so neither takes effect.
rename_up(k, index, ns, new_link_name, f) ==
    IF f = "rename" \/ NameTaken(k, ns, new_link_name, index)
    THEN [ok |-> FALSE, k |-> k]
    ELSE [ok |-> TRUE,
          k |-> [k EXCEPT ![index].name = new_link_name, ![index].up = TRUE]]

\* attach_link, router branch.
attach_router(n, index, new_link_name, f, l, s) ==
    LET k == kifaces IN
    IF index = 0 \/ ~file_path[n]
    THEN Step("Ok", k, cur_ns, <<>>, FALSE)
    ELSE IF anchor[n] # "mounted"
    \* File::open(file_path) fails: FileOpen in LinkManager, a silently
    \* skipped let-chain in Topology.
    THEN Step(IF impl = "LinkManager" THEN "Err" ELSE "Ok", k, cur_ns, <<>>, FALSE)
    ELSE IF f = "move"
    THEN Step(OnError, k, cur_ns, <<>>, TRUE)
    ELSE LET k1 == [k EXCEPT ![index].ns = n]
             moved == <<Ev("move", n, l, s)>>
         IN  IF f = "enter"
             \* Router::in_ns: setns into the router fails, closure not run.
             THEN Step(OnError, k1, cur_ns, moved, TRUE)
             ELSE LET r == rename_up(k1, index, n, new_link_name, f)
                      evs == IF r.ok
                             THEN Append(moved, Ev("rename_up", n, l, s))
                             ELSE moved
                  IN  IF f = "return"
                      \* Router::in_ns: going back to main fails.
                      THEN Step(OnError, r.k, n, evs, TRUE)
                      ELSE Step(IF ~r.ok /\ impl = "LinkManager"
                                THEN "Err" ELSE "Ok",
                                r.k, 0, evs, f = "rename")

\* attach_link's switch branch with its two requests in the other order.
attach_switch_master_first(n, index, new_link_name, f, l, s) ==
    LET k == kifaces IN
    IF index = 0 \/ sw_ifindex[n] = 0
    THEN Step("Ok", k, cur_ns, <<>>, FALSE)
    ELSE LET k1 == IF f = "master" THEN k
                   ELSE [k EXCEPT ![index].master = sw_ifindex[n]]
             r == rename_up(k1, index, cur_ns, new_link_name, f)
             e1 == IF r.ok THEN <<Ev("rename_up", n, l, s)>> ELSE <<>>
             e2 == IF f = "master" THEN <<>> ELSE <<Ev("set_master", n, l, s)>>
         IN  Step("Ok", r.k, cur_ns, e2 \o e1, f \in {"rename", "master"})

\* attach_link, switch branch: both netlink errors are only logged.
attach_switch(n, index, new_link_name, f, l, s) ==
    LET k == kifaces IN
    IF index = 0 \/ sw_ifindex[n] = 0
    THEN Step("Ok", k, cur_ns, <<>>, FALSE)
    ELSE LET r == rename_up(k, index, cur_ns, new_link_name, f)
             k2 == IF f = "master" THEN r.k
                   ELSE [r.k EXCEPT ![index].master = sw_ifindex[n]]
             e1 == IF r.ok THEN <<Ev("rename_up", n, l, s)>> ELSE <<>>
             e2 == IF f = "master" THEN <<>> ELSE <<Ev("set_master", n, l, s)>>
         IN  Step("Ok", k2, cur_ns, e1 \o e2, f \in {"rename", "master"})

attach_link(n, current_link_name, new_link_name, f, l, s) ==
    LET index == if_nametoindex(kifaces, cur_ns, current_link_name) IN
    IF f = "conn" THEN Step(OnError, kifaces, cur_ns, <<>>, TRUE)
    ELSE IF nodes[n] = "Router"
         THEN attach_router(n, index, new_link_name, f, l, s)
         ELSE attach_switch(n, index, new_link_name, f, l, s)

\* The interim names of link l: fresh, or (draw = "same") the two random
\* four-character draws coincide.
node1_link(l) == TmpNames[2 * l - 1]
node2_link(l, draw) == IF draw = "same" THEN node1_link(l) ELSE TmpNames[2 * l]

NewIface(name, ns, l, s) ==
    [name |-> name, ns |-> ns, up |-> FALSE, master |-> 0, link |-> l, side |-> s]

\* The veth request of create_link.
veth_add(l, draw, f) ==
    LET a == node1_link(l)
        b == node2_link(l, draw)
    IN  IF f \in {"conn", "veth"}
        THEN Step(OnError, kifaces, cur_ns, <<>>, TRUE)
        ELSE IF a = b \/ NameTaken(kifaces, cur_ns, a, 0)
                      \/ NameTaken(kifaces, cur_ns, b, 0)
        THEN Step(OnError, kifaces, cur_ns, <<>>, FALSE)
        ELSE Step("Ok",
                  kifaces \o <<NewIface(a, cur_ns, l, "src"),
                               NewIface(b, cur_ns, l, "dst")>>,
                  cur_ns, <<Ev("veth_add", 0, l, "both")>>, FALSE)

RECURSIVE AddrRequests(_, _, _)
\* The address requests add_iface_addresses issues for router n, in order:
\* interfaces in configured order, an interface without a kernel interface
\* in the router's namespace skipped (Interface::add_addresses returns Ok).
AddrRequests(k, n, ifs) ==
    IF ifs = <<>> THEN <<>>
    ELSE LET ifindex == if_nametoindex(k, n, Head(ifs).name)
             mine == IF ifindex = 0 THEN <<>>
                     ELSE [i \in 1..Len(Head(ifs).addresses) |->
                              <<ifindex, Head(ifs).addresses[i]>>]
         IN  mine \o AddrRequests(k, n, Tail(ifs))

\* Where the controlling thread goes after a loop of power_on ends.
AfterLinks ==
    IF Routers # {} THEN <<"addrs", NextRouter(1)>> ELSE <<"done", 0>>
\* A link loop that starts at the last link of the list.
AfterLo_last_first ==
    IF Len(links) > 0 THEN <<"links", Len(links)>> ELSE AfterLinks
\* The link loop: `for link in links`, from the first link pushed.
AfterLo ==
    IF Len(links) > 0 THEN <<"links", 1>> ELSE AfterLinks
AfterNodes ==
    IF impl = "LinkManager" /\ Routers # {}
    THEN <<"lo", NextRouter(1)>> ELSE AfterLo

Goto(p) == pc' = p[1] /\ cursor' = p[2]
Abort(res) == pc' = (IF res = "Panic" THEN "panic" ELSE "failed") /\ cursor' = cursor

\* ------------------------------------------------------------ engine: actions

InitEngine ==
    /\ impl \in {"Topology", "LinkManager"}
    /\ nodes \in [NodeIds -> {"Router", "Switch"}]
    /\ links \in Documents
    /\ pc = "nodes"
    /\ cursor = 1
    /\ phase = "veth"
    /\ kifaces = <<>>
    /\ file_path = [n \in NodeIds |-> FALSE]
    /\ anchor = [n \in NodeIds |-> "absent"]
    /\ sw_ifindex = [n \in NodeIds |-> 0]
    /\ loUp = [n \in NodeIds |-> FALSE]
    /\ addrs = {}
    /\ cur_ns = 0
    /\ linkResult = [l \in 1..Len(links) |-> "none"]
    /\ log = <<>>
    /\ faults = 0

\* A node loop that hands over to the link set-up after its first node.
AfterNode_first_only(n) == AfterNodes

\* Topology::power_on: the loop over self.nodes, then the link set-up.
AfterNode(n) == IF n = Len(NameOrder) THEN AfterNodes ELSE <<"nodes", n + 1>>

\* Router::power_on -> mount_device(Some(name)): unshare, fork the holder,
\* enter_ns(None), and record the anchor path.
Router_power_on ==
    /\ pc = "nodes"
    /\ nodes[cursor] = "Router"
    /\ \E f \in FaultChoices({"unshare", "fork", "enter_main"}) :
        /\ faults' = Charge(f)
        /\ IF f = "unshare"
           THEN /\ Abort("Err")
                /\ UNCHANGED <<file_path, anchor, cur_ns, log>>
           ELSE /\ anchor' = [anchor EXCEPT
                                 ![cursor] = IF f = "fork" THEN "absent" ELSE "mounted"]
                /\ log' = Append(log, Ev("ns_create", cursor, 0, "none"))
                /\ IF f = "enter_main"
                   THEN /\ Abort("Err")
                        /\ cur_ns' = cursor
                        /\ UNCHANGED file_path
                   ELSE /\ Goto(AfterNode(cursor))
                        /\ cur_ns' = 0
                        /\ file_path' = [file_path EXCEPT ![cursor] = TRUE]
    /\ UNCHANGED <<impl, nodes, links, phase, kifaces, sw_ifindex, loUp, addrs,
                   linkResult, lifeVars, loadVars, callVars, procVars>>

\* Switch::power_on: add the bridge, up, in the thread's namespace and record
\* its ifindex when if_nametoindex finds it.
Switch_power_on ==
    /\ pc = "nodes"
    /\ nodes[cursor] = "Switch"
    /\ \E f \in FaultChoices({"conn", "bridge", "nametoindex"}) :
        /\ faults' = Charge(f)
        /\ IF f \in {"conn", "bridge"}
              \/ NameTaken(kifaces, cur_ns, NameOrder[cursor], 0)
           THEN /\ Abort("Err")
                /\ UNCHANGED <<kifaces, sw_ifindex, log>>
           ELSE /\ kifaces' = Append(kifaces,
                       [NewIface(NameOrder[cursor], cur_ns, 0, "bridge")
                            EXCEPT !.up = TRUE])
                /\ sw_ifindex' = [sw_ifindex EXCEPT
                       ![cursor] = IF f = "nametoindex" THEN 0
                                   ELSE Len(kifaces) + 1]
                /\ log' = Append(log, Ev("bridge_add", cursor, 0, "none"))
                /\ Goto(AfterNode(cursor))
    /\ UNCHANGED <<impl, nodes, links, phase, file_path, anchor, loUp, addrs,
                   cur_ns, linkResult, lifeVars, loadVars, callVars, procVars>>

\* LinkManager::setup_all, first loop: Router::iface_up(1) inside in_ns.
iface_up ==
    /\ pc = "lo"
    /\ \E f \in FaultChoices({"enter", "conn", "up", "return"}) :
        /\ faults' = Charge(f)
        /\ IF ~file_path[cursor] \/ anchor[cursor] # "mounted"
           THEN /\ f = "none"
                /\ Abort("Err")
                /\ UNCHANGED <<loUp, cur_ns, log>>
           ELSE IF f = "enter"
           THEN /\ Abort("Err")
                /\ UNCHANGED <<loUp, cur_ns, log>>
           ELSE /\ loUp' = [loUp EXCEPT
                               ![cursor] = @ \/ f \notin {"conn", "up"}]
                /\ log' = IF f \in {"conn", "up"} THEN log
                          ELSE Append(log, Ev("lo_up", cursor, 0, "none"))
                /\ cur_ns' = IF f = "return" THEN cursor ELSE 0
                /\ IF f = "none"
                   THEN Goto(IF NextRouter(cursor + 1) = NoNode THEN AfterLo
                             ELSE <<"lo", NextRouter(cursor + 1)>>)
                   ELSE Abort("Err")
    /\ UNCHANGED <<impl, nodes, links, phase, kifaces, file_path, anchor,
                   sw_ifindex, addrs, linkResult, lifeVars, loadVars, callVars, procVars>>

\* create_link up to the veth request.
create_link_veth ==
    /\ pc = "links"
    /\ phase = "veth"
    /\ \E f \in FaultChoices({"conn", "veth", "same"}) :
        LET r == veth_add(cursor, f, f) IN
        /\ faults' = Charge(f)
        /\ kifaces' = r.k
        /\ log' = log \o r.evs
        /\ IF r.res = "Ok"
           THEN /\ phase' = "src"
                /\ UNCHANGED <<pc, cursor, linkResult>>
           ELSE /\ Abort(r.res)
                /\ linkResult' = [linkResult EXCEPT ![cursor] = r.res]
                /\ UNCHANGED phase
    /\ UNCHANGED <<impl, nodes, links, file_path, anchor, sw_ifindex, loUp,
                   addrs, cur_ns, lifeVars, loadVars, callVars, procVars>>

AttachFaults(n) ==
    IF nodes[n] = "Router" THEN {"conn", "move", "enter", "rename", "return"}
    ELSE {"conn", "rename", "master"}

\* create_link: attach_link for the src side.
create_link_src ==
    /\ pc = "links"
    /\ phase = "src"
    /\ \E f \in FaultChoices(AttachFaults(links[cursor].src_device)) :
        LET r == attach_link(links[cursor].src_device, node1_link(cursor),
                             links[cursor].src_iface, f, cursor, "src") IN
        /\ f = "none" \/ r.hit
        /\ faults' = Charge(f)
        /\ kifaces' = r.k
        /\ cur_ns' = r.ns
        /\ log' = log \o r.evs
        /\ IF r.res = "Ok"
           THEN /\ phase' = "dst"
                /\ UNCHANGED <<pc, cursor, linkResult>>
           ELSE /\ Abort(r.res)
                /\ linkResult' = [linkResult EXCEPT ![cursor] = r.res]
                /\ UNCHANGED phase
    /\ UNCHANGED <<impl, nodes, links, file_path, anchor, sw_ifindex, loUp,
                   addrs, lifeVars, loadVars, callVars, procVars>>

\* create_link: attach_link for the dst side, and the return of create_link.
create_link_dst ==
    /\ pc = "links"
    /\ phase = "dst"
    /\ \E f \in FaultChoices(AttachFaults(links[cursor].dst_device)) :
        LET r == attach_link(links[cursor].dst_device, node2_link(cursor, "fresh"),
                             links[cursor].dst_iface, f, cursor, "dst") IN
        /\ f = "none" \/ r.hit
        /\ faults' = Charge(f)
        /\ kifaces' = r.k
        /\ cur_ns' = r.ns
        /\ log' = log \o r.evs
        /\ linkResult' = [linkResult EXCEPT ![cursor] = r.res]
        /\ IF r.res = "Ok"
           THEN /\ phase' = "veth"
                /\ Goto(IF cursor = Len(links) THEN AfterLinks
                        ELSE <<"links", cursor + 1>>)
           ELSE /\ Abort(r.res)
                /\ UNCHANGED phase
    /\ UNCHANGED <<impl, nodes, links, file_path, anchor, sw_ifindex, loUp,
                   addrs, lifeVars, loadVars, callVars, procVars>>

\* Router::add_iface_addresses for the router at the cursor: the closure run
\* by in_ns issues the address requests; setup_all returns its error, while
\* Topology::setup_links drops it (let _ =) and goes on.
add_iface_addresses ==
    /\ pc = "addrs"
    /\ \E f \in FaultChoices({"enter", "conn", "addr1", "addr2", "return"}) :
        LET n == cursor
            reqs == AddrRequests(kifaces, n, RouterIfaces)
            entered == file_path[n] /\ anchor[n] = "mounted" /\ f # "enter"
            sent == IF ~entered \/ f = "conn" THEN 0
                    ELSE IF f = "addr1" THEN 0
                    ELSE IF f = "addr2" THEN 1
                    ELSE Len(reqs)
            ok == entered /\ f = "none"
            next == IF NextRouter(n + 1) = NoNode THEN <<"done", 0>>
                    ELSE <<"addrs", NextRouter(n + 1)>>
        IN
        /\ f \in {"addr1", "addr2"} => entered /\ Len(reqs) > sent
        /\ f # "none" => file_path[n] /\ anchor[n] = "mounted"
        /\ faults' = Charge(f)
        /\ addrs' = addrs \cup {reqs[i] : i \in 1..sent}
        /\ log' = log \o [i \in 1..sent |-> Ev("addr_add", n, reqs[i][1], reqs[i][2])]
        /\ cur_ns' = IF ~entered THEN cur_ns
                     ELSE IF f = "return" THEN n ELSE 0
        /\ IF ok \/ impl = "Topology" THEN Goto(next) ELSE Abort("Err")
    /\ UNCHANGED <<impl, nodes, links, phase, kifaces, file_path, anchor,
                   sw_ifindex, loUp, linkResult, lifeVars, loadVars, callVars, procVars>>

\* A namespace id no interface is looked up in: that of a namespace that is
\* gone, and of the interfaces that went with it.
Gone == NoNode + 1

\* What the kernel does to the interfaces when namespace n is destroyed: the
\* interfaces inside it go, and with a veth end goes its peer.
destroy_ns(k, n) ==
    LET inside == {i \in 1..Len(k) : k[i].ns = n}
        peers == {j \in 1..Len(k) : \E i \in inside :
                      k[i].link # 0 /\ k[j].link = k[i].link}
    IN  [i \in 1..Len(k) |->
            IF i \in inside \cup peers THEN [k[i] EXCEPT !.ns = Gone] ELSE k[i]]

\* A Node::power_off that also deletes the bridge of a switch.
Node_power_off_bridges(k, n, dies) ==
    IF nodes[n] = "Router"
    THEN IF dies THEN destroy_ns(k, n) ELSE k
    ELSE LET b == if_nametoindex(k, 0, NameOrder[n])
         IN  IF b = 0 THEN k ELSE [k EXCEPT ![b].ns = Gone]

\* Node::power_off on the kernel's interfaces: Router::power_off for a router
\* (its namespace dies when the SIGKILL of delete_ns took its holder), nothing
\* for a switch.
Node_power_off(k, n, dies) ==
    IF nodes[n] = "Router"
    THEN IF dies THEN destroy_ns(k, n) ELSE k
    ELSE k

\* A loop over the nodes that returns at the first error (node.power_off()?).
AfterPowerOffError_return(rest) == <<>>

\* Topology::power_off drops the result of node.power_off(): after an error
\* the loop goes on with the rest of the nodes.
AfterPowerOffError(rest) == rest

RECURSIVE PowerOffLoop(_, _, _, _)
\* The loop of Topology::power_off over the nodes todo, in name order: bad is
\* the router whose delete_ns returns an error (NoNode: none), dead the
\* routers whose namespace dies. Returns the interfaces, the routers whose
\* directory was removed and the calls made.
PowerOffLoop(todo, st, bad, dead) ==
    IF todo = <<>> THEN st
    ELSE LET n == Head(todo) IN
         IF nodes[n] = "Router" /\ n = bad
         THEN PowerOffLoop(AfterPowerOffError(Tail(todo)),
                           [st EXCEPT !.evs = Append(@, Ev("ns_delete_err", n, 0, "none"))],
                           bad, dead)
         ELSE PowerOffLoop(Tail(todo),
                  [k |-> Node_power_off(st.k, n, n \in dead),
                   removed |-> IF nodes[n] = "Router" THEN st.removed \cup {n}
                               ELSE st.removed,
                   evs |-> IF nodes[n] = "Router"
                           THEN Append(st.evs, Ev("ns_delete", n, 0, "none"))
                           ELSE st.evs],
                  bad, dead)

\* Topology::power_off, as the stop subcommand runs it on the document after
\* a power-on has ended.
Topology_power_off ==
    /\ pc \in {"done", "failed", "panic"}
    /\ \E f \in FaultChoices({"delete"}) :
       \E bad \in IF f = "delete" THEN Routers ELSE {NoNode} :
       \E dead \in SUBSET (Routers \ {bad}) :
        LET r == PowerOffLoop([i \in NodeIds |-> i],
                              [k |-> kifaces, removed |-> {}, evs |-> <<>>],
                              bad, dead)
        IN  /\ faults' = Charge(f)
            /\ kifaces' = r.k
            /\ anchor' = [n \in NodeIds |->
                             IF n \in r.removed THEN "absent" ELSE anchor[n]]
            /\ log' = log \o r.evs
    /\ pc' = "off"
    /\ UNCHANGED <<impl, nodes, links, cursor, phase, file_path, sw_ifindex,
                   loUp, addrs, cur_ns, linkResult, lifeVars, loadVars, callVars, procVars>>

NextEngine ==
    \/ Router_power_on
    \/ Switch_power_on
    \/ iface_up
    \/ create_link_veth
    \/ create_link_src
    \/ create_link_dst
    \/ add_iface_addresses
    \/ Topology_power_off

\* ------------------------------------------------------------ engine: claims

Logged(op) == {i \in 1..Len(log) : log[i].op = op}
PoweredOn(n) ==
    \E i \in 1..Len(log) :
        log[i].node = n /\ log[i].op \in {"ns_create", "bridge_add"}
Switches == NodeIds \ Routers

LinkEv(i, l, s, op) ==
    log[i].link = l /\ log[i].side = s /\ log[i].op = op
AttachOps == {"move", "rename_up", "set_master"}

\* C2: for any single link the veth pair is created before either end is
\* moved, renamed or enslaved; every request for the src side precedes every
\* request for the dst side; for a router end the move precedes the
\* rename/set-up; for a switch end set-master comes after the rename/set-up.
C2_LinkOrder ==
    \A j \in 1..Len(log) :
        log[j].op \in AttachOps =>
            LET l == log[j].link
                s == log[j].side
                earlier == 1..(j - 1)
                later == (j + 1)..Len(log)
            IN  /\ \E v \in earlier : LinkEv(v, l, "both", "veth_add")
                /\ \A i \in later : ~LinkEv(i, l, "both", "veth_add")
                /\ s = "src" =>
                      \A i \in earlier :
                          ~(log[i].link = l /\ log[i].side = "dst")
                /\ (log[j].op = "rename_up" /\ nodes[log[j].node] = "Router")
                      => \E m \in earlier : LinkEv(m, l, s, "move")
                /\ log[j].op = "set_master"
                      => \A i \in later : ~LinkEv(i, l, s, "rename_up")

\* C2 witness: a link from a router to a switch with every request of both
\* sides issued.
C2_Witness ==
    \E l \in 1..Len(links) :
        /\ linkResult[l] = "Ok"
        /\ nodes[links[l].src_device] = "Router"
        /\ nodes[links[l].dst_device] = "Switch"
        /\ \E i, j, m, q \in 1..Len(log) :
              /\ LinkEv(i, l, "src", "move") /\ LinkEv(j, l, "src", "rename_up")
              /\ LinkEv(m, l, "dst", "rename_up") /\ LinkEv(q, l, "dst", "set_master")

EndDevice(l, s) == IF s = "src" THEN links[l].src_device ELSE links[l].dst_device
EndIface(l, s) == IF s = "src" THEN links[l].src_iface ELSE links[l].dst_iface

\* The kernel interface that is side s of link l is where the document wants
\* it: named as the user asked, up, enslaved to the switch's bridge or inside
\* the router's namespace.
EndpointRealized(l, s) ==
    \E i \in 1..Len(kifaces) :
        LET x == kifaces[i]
            n == EndDevice(l, s)
        IN  /\ x.link = l /\ x.side = s
            /\ x.name = EndIface(l, s)
            /\ x.up
            /\ IF nodes[n] = "Switch"
               THEN x.ns = 0 /\ sw_ifindex[n] # 0 /\ x.master = sw_ifindex[n]
               ELSE x.ns = n

\* Every endpoint (device, iface) of the document is used once.
EndpointsDistinct ==
    \A l, m \in 1..Len(links) : \A s, t \in {"src", "dst"} :
        (l # m \/ s # t) => <<EndDevice(l, s), EndIface(l, s)>>
                               # <<EndDevice(m, t), EndIface(m, t)>>

\* C3: for every link for which create_link returned Ok, both endpoints carry
\* the user-specified names and are up; a switch endpoint has the switch's
\* bridge as master; a router endpoint is inside that router's namespace.
\* Stated for the runs in which nothing fails in the environment and for
\* documents whose endpoints are all distinct.
C3_OkLinkRealized ==
    (faults = 0 /\ EndpointsDistinct) =>
        \A l \in 1..Len(links) :
            linkResult[l] = "Ok" =>
                EndpointRealized(l, "src") /\ EndpointRealized(l, "dst")


\* C12: when a request of a link fails (here: a failure the environment
\* injects while create_link runs), create_link ends with an error for that
\* link and the engine does not go on to a later step of it.
C12_LinkErrorAborts ==
    [][(pc = "links" /\ faults' > faults)
          => /\ linkResult'[cursor] \in {"Err", "Panic"}
             /\ pc' \in {"failed", "panic"}
             /\ phase' = phase]_vars

\* C13: power-on is fail-stop: a step that meets a failure returns the typed
\* error, after which no step runs; and no step removes an interface, an
\* address or an anchor an earlier step made.
C13_FailStop ==
    [][/\ faults' > faults => pc' = "failed"
       /\ pc \in {"failed", "panic"} => UNCHANGED engineVars
       /\ Len(kifaces') >= Len(kifaces)
       /\ addrs \subseteq addrs'
       /\ \A n \in NodeIds : anchor[n] = "mounted" => anchor'[n] = "mounted"]_vars

\* C24: at the veth step of every link, whether the two random draws differ
\* or come out equal, the pair is created: its two interim names differ from
\* each other and from every name in use in the thread's namespace.
C24_InterimNamesNeverCollide ==
    (pc = "links" /\ phase = "veth") =>
        \A draw \in {"none", "same"} : veth_add(cursor, draw, draw).res = "Ok"

\* The kernel interface of router n named name (0: none).
RouterIfindex(n, name) == if_nametoindex(kifaces, n, name)

\* C25: after a successful power-on every configured address of every router
\* interface is on that interface in the router's namespace, and no other
\* address is on any interface.
C25_AddressesAsConfigured ==
    pc = "done" =>
        /\ \A n \in Routers : \A i \in 1..Len(RouterIfaces) :
              \A j \in 1..Len(RouterIfaces[i].addresses) :
                  /\ RouterIfindex(n, RouterIfaces[i].name) # 0
                  /\ <<RouterIfindex(n, RouterIfaces[i].name),
                        RouterIfaces[i].addresses[j]>> \in addrs
        /\ \A p \in addrs :
              \E n \in Routers : \E i \in 1..Len(RouterIfaces) :
                  /\ p[1] = RouterIfindex(n, RouterIfaces[i].name)
                  /\ \E j \in 1..Len(RouterIfaces[i].addresses) :
                        p[2] = RouterIfaces[i].addresses[j]

\* C26: after a successful power-on the loopback of every router is up, and
\* no veth pair is created before the loopback of every router is up.
C26_LoopbackUp ==
    /\ pc = "done" => \A n \in Routers : loUp[n]
    /\ (\E i \in 1..Len(log) : log[i].op = "veth_add") => \A n \in Routers : loUp[n]

\* C27: a step that runs Router::in_ns (loopback up, a link's attachment, the
\* address requests) leaves the controlling thread in the main namespace,
\* whether it succeeded or failed.
C27_InNsReturnsToMain ==
    [][(pc \in {"lo", "links", "addrs"}) => (cur_ns' = 0)]_vars

\* C28: mount_device has returned Ok with the anchor path (Router.file_path
\* is set) only for a router whose holder was forked and mounted the anchor.
C28_ForkFailureSurfaces ==
    \A n \in NodeIds : file_path[n] => anchor[n] = "mounted"

\* Every endpoint is one end of one link: no link joins an endpoint to itself
\* and no two links share an endpoint.
EndpointsOnce ==
    \A i, j \in 1..Len(links) :
        /\ src(links[i]) # dst(links[i])
        /\ i # j => {src(links[i]), dst(links[i])} \cap {src(links[j]), dst(links[j])} = {}

\* The end of the link at the cursor that attach_link is about to rename.
EndNode == IF phase = "src" THEN links[cursor].src_device ELSE links[cursor].dst_device
EndName == IF phase = "src" THEN links[cursor].src_iface ELSE links[cursor].dst_iface
EndTmp == IF phase = "src" THEN node1_link(cursor) ELSE node2_link(cursor, "fresh")

\* C31: interface names need only be unique within their node: in a topology
\* whose endpoints are each used once, the rename of a link end to its
\* configured name never meets an interface of that name in the namespace
\* where the rename is made (the router's for a router end, the thread's for
\* a switch end).
C31_RenameNeverClashes ==
    (EndpointsOnce /\ pc = "links" /\ phase \in {"src", "dst"}) =>
        LET index == if_nametoindex(kifaces, cur_ns, EndTmp)
            ns == IF nodes[EndNode] = "Router" THEN EndNode ELSE cur_ns
        IN  index # 0 => rename_up(kifaces, index, ns, EndName, "none").ok

\* C32: whenever Switch::power_on has returned Ok for a switch, its bridge
\* exists and is up in the thread's namespace and Switch.ifindex is Some and
\* is that bridge's index.
C32_BridgeIndexRecorded ==
    \A n \in Switches :
        (\E i \in Logged("bridge_add") : log[i].node = n) =>
            /\ sw_ifindex[n] # 0
            /\ sw_ifindex[n] = if_nametoindex(kifaces, 0, NameOrder[n])
            /\ kifaces[sw_ifindex[n]].up

\* The canonical order of links: by src device, src interface, dst device,
\* dst interface, each in ascending name order.
IfRank(name) == IF name = "a" THEN 1 ELSE 2
LinkKey(link) ==
    ((link.src_device * 4 + IfRank(link.src_iface)) * 4 + link.dst_device) * 4
        + IfRank(link.dst_iface)
\* The k-th request with operation in ops that the log holds.
NthLogged(ops, k) ==
    CHOOSE i \in 1..Len(log) :
        /\ log[i].op \in ops
        /\ Cardinality({j \in 1..i : log[j].op \in ops}) = k
CountLogged(ops) == Cardinality({j \in 1..Len(log) : log[j].op \in ops})

\* C33 (as claimed): nodes are visited in ascending name order and links in
\* the canonical sorted order, whatever the order of the document's entries.
C33_CanonicalOrder ==
    /\ \A i, j \in Logged("ns_create") \cup Logged("bridge_add") :
           i < j => log[i].node < log[j].node
    /\ \A i, j \in Logged("veth_add") :
           i < j => LinkKey(links[log[i].link]) < LinkKey(links[log[j].link])

\* C33 (amended): nodes are visited in ascending name order and links in the
\* order of the document's link list: the k-th node powered on is the k-th
\* name and the k-th veth pair is that of the k-th link of the list.
C33_DocumentOrder ==
    /\ \A k \in 1..CountLogged({"ns_create", "bridge_add"}) :
           log[NthLogged({"ns_create", "bridge_add"}, k)].node = k
    /\ \A k \in 1..CountLogged({"veth_add"}) :
           log[NthLogged({"veth_add"}, k)].link = k

\* C33 witness: a finished power-on of two links listed against the canonical
\* order, both realized.
C33_Witness ==
    /\ pc = "done"
    /\ Len(links) = 2
    /\ LinkKey(links[1]) > LinkKey(links[2])
    /\ CountLogged({"veth_add"}) = 2
    /\ CountLogged({"ns_create", "bridge_add"}) = Len(NameOrder)

\* The bridges the kernel has, with their namespace and state.
Bridges == {kifaces[i] : i \in {j \in 1..Len(kifaces) : kifaces[j].side = "bridge"}}

TornDown(n) == \E i \in Logged("ns_delete") : log[i].node = n
TearDownFailed(n) == \E i \in Logged("ns_delete_err") : log[i].node = n

\* C39: Topology::power_off attempts the teardown of every router: when it
\* has run, every router's teardown was called, and every router whose own
\* teardown did not fail is torn down, also after a router whose teardown
\* failed.
C39_EveryRouterAttempted ==
    pc = "off" =>
        \A n \in Routers :
            /\ TornDown(n) \/ TearDownFailed(n)
            /\ TornDown(n) => anchor[n] = "absent"

\* C39 witness: the teardown of the first router failed and left its anchor,
\* and the second router, powered on before, was torn down after it.
C39_Witness ==
    /\ pc = "off"
    /\ Routers = NodeIds
    /\ TearDownFailed(1) /\ anchor[1] = "mounted"
    /\ TornDown(2) /\ file_path[2] /\ anchor[2] = "absent"

\* The address requests of the router at the cursor, as a set.
RouterRequests ==
    LET reqs == AddrRequests(kifaces, cursor, RouterIfaces)
    IN  {reqs[i] : i \in 1..Len(reqs)}

\* C38: address assignment skips interfaces that do not exist and stops at a
\* failed add: a step of add_iface_addresses adds addresses only to the
\* router's interfaces that exist in its namespace, and when it has added
\* some but not all of them (an add failed) the power-on is aborted, with no
\* address added for that router or a later one afterwards.
C38_SkipMissingAbortOnFailure ==
    [][pc = "addrs" =>
          /\ (addrs' \ addrs) \subseteq RouterRequests
          /\ ((addrs' \ addrs) \notin {{}, RouterRequests}) => (pc' = "failed")]_vars

\* ------------------------------------------------- lifecycle: start and stop

\* How many start commands and how many stop commands a run has.
MaxStarts == 2
MaxStops == 1
Invocations == 1..MaxStarts

RouterNames == {NameOrder[n] : n \in NodeIds}
Dev == {"main"} \cup RouterNames

\* init of the host pid namespace, and of every pid namespace a holder opens.
InitPid == 1
\* Contents of a .pid file: no such file, a file created and not yet written,
\* or the pid written in it.
NoFile == -1
EmptyFile == 0

\* A device directory that does not exist: DeviceDetails' home_path with the
\* net and pid anchors (and what is bind-mounted on them) and .pid.
Absent == [home |-> FALSE, net |-> FALSE, netm |-> 0,
           pidf |-> FALSE, pidm |-> 0, dotpid |-> NoFile]

\* No stop has run since the last step of a start or of a holder.
NoStop == [res |-> "none", doc |-> {}, fs |-> [d \in Dev |-> Absent], alive |-> {}]

\* BTreeMap iteration over the routers of a document: ascending names.
SortedRouters(R) == SelectSeq(NameOrder, LAMBDA x : x \in R)

\* kill(pid, SIGKILL) by a process of the host pid namespace: init takes the
\* signal and lives, a live process dies, anything else is ESRCH.
kill(sys, pid) ==
    IF pid = InitPid
    THEN [sys |-> [sys EXCEPT !.killed = @ \cup {pid}], ok |-> TRUE]
    ELSE IF pid \in sys.alive
    THEN [sys |-> [sys EXCEPT !.alive = @ \ {pid}, !.killed = @ \cup {pid}],
          ok |-> TRUE]
    ELSE [sys |-> sys, ok |-> FALSE]

\* A kill_process for which a .pid file that cannot be opened is an error.
kill_process_strict(sys, d) ==
    IF sys.fs[d].dotpid = NoFile THEN [sys |-> sys, ok |-> FALSE]
    ELSE IF sys.fs[d].dotpid = EmptyFile THEN [sys |-> sys, ok |-> TRUE]
    ELSE kill(sys, sys.fs[d].dotpid)

\* kill_process: a file that cannot be opened, or whose first line is not a
\* number, is passed over; the error of kill is returned.
kill_process(sys, d) ==
    IF sys.fs[d].dotpid \in {NoFile, EmptyFile} THEN [sys |-> sys, ok |-> TRUE]
    ELSE kill(sys, sys.fs[d].dotpid)

\* delete_ns(Some(name)): kill the pid of .pid, unmount the anchor, remove the
\* directory recursively; missing files are tolerated.
delete_ns(sys, d) ==
    LET k == kill_process(sys, d)
    IN  IF k.ok THEN [k.sys EXCEPT !.fs[d] = Absent] ELSE k.sys

\* Topology::power_off: every node in name order, results dropped
\* (Node::power_off and Router::power_off only forward delete_ns).
RECURSIVE power_off(_, _)
power_off(sys, rs) ==
    IF rs = <<>> THEN sys
    ELSE power_off(delete_ns(sys, Head(rs)), Tail(rs))

\* The rest of the stop subcommand: umount main/net (an error is logged),
\* kill the process PID_FILE names if the process table has it, remove
\* PID_FILE.
stop_main(sys) ==
    LET m == sys.fs["main"]
        p == m.dotpid
        hit == p > EmptyFile /\ (p = InitPid \/ p \in sys.alive)
        k == IF hit THEN kill(sys, p).sys ELSE sys
    IN  [k EXCEPT !.fs["main"] =
            [m EXCEPT !.netm = IF m.netm > 0 THEN m.netm - 1 ELSE 0,
                      !.dotpid = NoFile]]

\* The stop subcommand on a document: "ok" with the routers R it names, "err"
\* when parse_config_args returns Err, "panic" when it unwraps an Err.
stop(sys, doc, R) ==
    IF doc = "panic" THEN sys
    ELSE IF doc = "ok" THEN stop_main(power_off(sys, SortedRouters(R)))
    ELSE stop_main(sys)

Sys == [fs |-> fs, alive |-> alive, killed |-> killed]

\* The router sets of the documents a start is given: none or all of them when
\* the starts run one after the other, the first one at most when two run at
\* once.
StartDocs ==
    IF conc = 1 THEN {{}, RouterNames} ELSE {{}, {NameOrder[1]}}

Terminal == {"refused", "panicked", "failed", "done", "interrupted"}
Running(i) == inv[i].pc \notin Terminal \cup {"idle"}
Quiescent == \A i \in Invocations : ~Running(i)
\* Every holder that is alive has reached pause() or has left create_ns.
Settled ==
    \A i \in Invocations : \A d \in Dev :
        holder[i][d].pid \in alive => holder[i][d].st \in {"paused", "escaped"}

IdleInv == [pc |-> "idle", topo |-> {}, child |-> 0, dev |-> "main",
            todo |-> <<>>]
NoHolder == [st |-> "none", pid |-> 0]

InitLife(c) ==
    /\ conc = c
    /\ top = FALSE
    /\ fs = [d \in Dev |-> Absent]
    /\ inv = [i \in Invocations |-> IdleInv]
    /\ holder = [i \in Invocations |-> [d \in Dev |-> NoHolder]]
    /\ alive = {}
    /\ nextPid = InitPid + 1
    /\ killed = {}
    /\ passed = {}
    /\ stops = 0
    /\ last = NoStop


\* A start whose first statement is not the guard on PID_FILE.
StartGuard_unguarded(i) ==
    /\ inv[i].pc = "idle"
    /\ i > 1 => inv[i - 1].pc # "idle"
    /\ Cardinality({j \in Invocations : Running(j)}) < conc
    /\ conc = 1 => Settled
    /\ inv' = [inv EXCEPT ![i].pc = "load"]
    /\ passed' = passed \cup {i}
    /\ last' = NoStop
    /\ UNCHANGED <<engineVars, loadVars, callVars, procVars, conc, top, fs, holder, alive, nextPid, killed, stops>>

\* start, first statement: File::open(PID_FILE).is_ok() returns the error
\* "topology is currently running".
StartGuard(i) ==
    /\ inv[i].pc = "idle"
    /\ i > 1 => inv[i - 1].pc # "idle"
    /\ Cardinality({j \in Invocations : Running(j)}) < conc
    /\ conc = 1 => Settled
    /\ IF fs["main"].dotpid # NoFile
       THEN /\ inv' = [inv EXCEPT ![i].pc = "refused"]
            /\ UNCHANGED passed
       ELSE /\ inv' = [inv EXCEPT ![i].pc = "load"]
            /\ passed' = passed \cup {i}
    /\ last' = NoStop
    /\ UNCHANGED <<engineVars, loadVars, callVars, procVars, conc, top, fs, holder, alive, nextPid, killed, stops>>

\* start: create_dir_all(DEVICES_NS_DIR), then parse_config_args, which
\* returns the document, returns Err, or unwraps an Err.
StartLoad(i) ==
    /\ inv[i].pc = "load"
    /\ top' = TRUE
    /\ \E doc \in {"ok", "err", "panic"} :
       \E R \in StartDocs :
        /\ doc # "ok" => R = {}
        /\ inv' = [inv EXCEPT ![i].pc = IF doc = "ok" THEN "fork"
                                        ELSE IF doc = "err" THEN "failed"
                                        ELSE "panicked",
                              ![i].topo = R]
    /\ last' = NoStop
    /\ UNCHANGED <<engineVars, loadVars, callVars, procVars, conc, fs, holder, alive, nextPid, killed, passed, stops>>

\* create_devices: fork; the child reads its pid, the parent waits for it.
create_devices(i) ==
    /\ inv[i].pc = "fork"
    /\ inv' = [inv EXCEPT ![i].pc = "mount", ![i].child = nextPid,
                          ![i].dev = "main"]
    /\ alive' = alive \cup {nextPid}
    /\ nextPid' = nextPid + 1
    /\ last' = NoStop
    /\ UNCHANGED <<engineVars, loadVars, callVars, procVars, conc, top, fs, holder, killed, passed, stops>>

\* mount_device, first half: unshare(NEWNET | NEWPID) and fork; the child runs
\* create_ns, the parent goes on without waiting for it.
mount_device_fork(i) ==
    /\ inv[i].pc = "mount"
    /\ holder' = [holder EXCEPT ![i][inv[i].dev] = [st |-> "forked", pid |-> nextPid]]
    /\ alive' = alive \cup {nextPid}
    /\ nextPid' = nextPid + 1
    /\ inv' = [inv EXCEPT ![i].pc = "enter"]
    /\ last' = NoStop
    /\ UNCHANGED <<engineVars, loadVars, callVars, procVars, conc, top, fs, killed, passed, stops>>

\* enter_ns(None): open main/net and main/pid, setns into both.
enter_ns_main(f) ==
    f["main"].net /\ f["main"].netm > 0 /\ f["main"].pidf /\ f["main"].pidm > 0

\* mount_device, second half: the one-second sleep when the device is main,
\* enter_ns(None)?, Ok(netns_path). For a router this is the end of
\* Router::power_on and the loop of Topology::power_on goes to the next node.
mount_device_return(i) ==
    /\ inv[i].pc = "enter"
    /\ LET d == inv[i].dev
           rest == IF d = "main" THEN inv[i].todo ELSE Tail(inv[i].todo)
       IN  IF ~enter_ns_main(fs)
           THEN /\ inv' = [inv EXCEPT ![i].pc = "failed"]
                /\ alive' = alive \ {inv[i].child}
           ELSE /\ inv' = [inv EXCEPT
                             ![i].todo = rest,
                             ![i].pc = IF d = "main" THEN "write_pid"
                                       ELSE IF rest = <<>> THEN "links"
                                       ELSE "mount",
                             ![i].dev = IF rest = <<>> THEN "main"
                                        ELSE Head(rest)]
                /\ UNCHANGED alive
    /\ last' = NoStop
    /\ UNCHANGED <<engineVars, loadVars, callVars, procVars, conc, top, fs, holder, nextPid, killed, passed, stops>>

\* create_devices, after mount_device: File::create(PID_FILE) and the pid the
\* child read before; then Topology::power_on starts on the routers.
WritePidFile(i) ==
    /\ inv[i].pc = "write_pid"
    /\ fs' = IF fs["main"].home
             THEN [fs EXCEPT !["main"].dotpid = inv[i].child]
             ELSE fs
    /\ LET rs == SortedRouters(inv[i].topo)
       IN  inv' = [inv EXCEPT ![i].todo = rs,
                              ![i].pc = IF rs = <<>> THEN "links" ELSE "mount",
                              ![i].dev = IF rs = <<>> THEN "main" ELSE Head(rs)]
    /\ last' = NoStop
    /\ UNCHANGED <<engineVars, loadVars, callVars, procVars, conc, top, holder, alive, nextPid, killed, passed, stops>>

\* The link set-up as far as the anchors go: attach_link and
\* add_iface_addresses open and enter each router's anchor.
AnchorUsable(r) == fs[r].net /\ fs[r].netm > 0

\* The link set-up runs, the start is over and the forked child exits.
SetupLinks(i) ==
    /\ inv[i].pc = "links"
    /\ inv' = [inv EXCEPT ![i].pc = "done"]
    /\ alive' = alive \ {inv[i].child}
    /\ last' = NoStop
    /\ UNCHANGED <<engineVars, loadVars, callVars, procVars, conc, top, fs, holder, nextPid, killed, passed, stops>>

HolderAt(i, d, st) == holder[i][d].st = st /\ holder[i][d].pid \in alive
HolderTo(i, d, st) == holder' = [holder EXCEPT ![i][d].st = st]

\* The engine's variables a step of a command leaves alone; faults counts the
\* failures injected into the commands as well.
engineRest == <<impl, nodes, links, pc, cursor, phase, kifaces, file_path,
                anchor, sw_ifindex, loUp, addrs, cur_ns, linkResult, log>>

\* create_ns: create_dir_all(home_path) and File::create(netns_path); when
\* one of them fails create_ns returns the error.
create_ns_anchor(i, d) ==
    /\ HolderAt(i, d, "forked")
    /\ \E f \in FaultChoices({"create"}) :
        /\ faults' = Charge(f)
        /\ IF f = "none"
           THEN /\ fs' = [fs EXCEPT ![d].home = TRUE, ![d].net = TRUE]
                /\ top' = TRUE
                /\ HolderTo(i, d, "created")
           ELSE /\ HolderTo(i, d, "escaped")
                /\ UNCHANGED <<fs, top>>
    /\ last' = NoStop
    /\ UNCHANGED <<engineRest, loadVars, callVars, procVars, conc, inv, alive, nextPid, killed, passed, stops>>

\* create_ns: bind-mount /proc/self/ns/net on the anchor; on an error the
\* child returns from create_ns.
create_ns_mount_net(i, d) ==
    /\ HolderAt(i, d, "created")
    /\ \E f \in FaultChoices({"mount"}) :
        /\ faults' = Charge(f)
        /\ IF fs[d].net /\ f = "none"
           THEN /\ fs' = [fs EXCEPT ![d].netm = @ + 1]
                /\ HolderTo(i, d, "netmounted")
           ELSE /\ HolderTo(i, d, "escaped")
                /\ UNCHANGED fs
    /\ last' = NoStop
    /\ UNCHANGED <<engineRest, loadVars, callVars, procVars, conc, top, inv, alive, nextPid, killed, passed, stops>>

\* create_ns: File::create(pidns_path) and bind-mount /proc/self/ns/pid on it.
create_ns_mount_pid(i, d) ==
    /\ HolderAt(i, d, "netmounted")
    /\ \E f \in FaultChoices({"mount"}) :
        /\ faults' = Charge(f)
        /\ IF fs[d].home /\ f = "none"
           THEN /\ fs' = [fs EXCEPT ![d].pidf = TRUE, ![d].pidm = @ + 1]
                /\ HolderTo(i, d, "pidmounted")
           ELSE /\ HolderTo(i, d, "escaped")
                /\ UNCHANGED fs
    /\ last' = NoStop
    /\ UNCHANGED <<engineRest, loadVars, callVars, procVars, conc, top, inv, alive, nextPid, killed, passed, stops>>

\* create_ns: write Pid::this() to .pid if the file can be created, then
\* pause(). The child is the first process of the pid namespace its parent
\* unshared, so the pid it reads is 1.
create_ns_write_pid(i, d) ==
    /\ HolderAt(i, d, "pidmounted")
    /\ fs' = IF fs[d].home THEN [fs EXCEPT ![d].dotpid = InitPid] ELSE fs
    /\ HolderTo(i, d, "paused")
    /\ last' = NoStop
    /\ UNCHANGED <<engineVars, loadVars, callVars, procVars, conc, top, inv, alive, nextPid, killed, passed, stops>>

\* The child arm of the fork with the error of create_ns dropped: the child
\* goes on to the sleep and enter_ns as the parent does.
child_after_create_ns_dropped(res) == "engine"

\* The child arm of the fork in mount_device, create_ns(&device)?: Ok is what
\* create_ns returns after pause() (no signal handler is installed, so it
\* does not); an Err is returned from mount_device, and from Router::power_on,
\* Topology::power_on, create_devices and main by their own ?, which ends the
\* process.
child_after_create_ns(res) == IF res = "Err" THEN "exited" ELSE "engine"

\* A holder child whose create_ns returned an error leaves mount_device.
mount_device_child(i, d) ==
    /\ HolderAt(i, d, "escaped")
    /\ LET to == child_after_create_ns("Err") IN
       /\ HolderTo(i, d, to)
       /\ alive' = IF to = "exited" THEN alive \ {holder[i][d].pid} ELSE alive
    /\ last' = NoStop
    /\ UNCHANGED <<engineVars, loadVars, callVars, procVars, conc, top, fs, inv, nextPid, killed, passed, stops>>

\* SIGINT to the foreground process group of a start while it creates the main
\* namespace: the command, its forked child and the holder die; what they
\* made stays.
Interrupt(i) ==
    /\ Running(i)
    /\ inv' = [inv EXCEPT ![i].pc = "interrupted"]
    /\ alive' = alive \ ({inv[i].child} \cup {holder[i][d].pid : d \in Dev})
    /\ last' = NoStop
    /\ UNCHANGED <<engineVars, loadVars, callVars, procVars, conc, top, fs, holder, nextPid, killed, passed, stops>>

\* The operator deletes devices/<r>/.pid by hand.
RemovePidFile(r) ==
    /\ Quiescent /\ Settled
    /\ fs[r].dotpid # NoFile
    /\ fs' = [fs EXCEPT ![r].dotpid = NoFile]
    /\ last' = NoStop
    /\ UNCHANGED <<engineVars, loadVars, callVars, procVars, conc, top, inv, holder, alive, nextPid, killed, passed, stops>>

\* The stop subcommand, run while no start is running.
Stop ==
    /\ Quiescent /\ Settled
    /\ stops < MaxStops
    /\ \E doc \in {"ok", "err", "panic"} :
       \E R \in SUBSET RouterNames :
        /\ doc # "ok" => R = {}
        /\ LET s == stop(Sys, doc, R)
           IN  /\ fs' = s.fs
               /\ alive' = s.alive
               /\ killed' = s.killed
               /\ last' = [res |-> doc, doc |-> R, fs |-> fs, alive |-> alive]
    /\ stops' = stops + 1
    /\ passed' = {}
    /\ UNCHANGED <<engineVars, loadVars, callVars, procVars, conc, top, inv, holder, nextPid>>

NextLife ==
    \/ \E i \in Invocations :
        \/ StartGuard(i)
        \/ StartLoad(i)
        \/ create_devices(i)
        \/ mount_device_fork(i)
        \/ mount_device_return(i)
        \/ WritePidFile(i)
        \/ SetupLinks(i)
        \/ Interrupt(i)
        \/ \E d \in Dev :
            \/ create_ns_anchor(i, d)
            \/ create_ns_mount_net(i, d)
            \/ create_ns_mount_pid(i, d)
            \/ create_ns_write_pid(i, d)
    \/ \E r \in RouterNames : RemovePidFile(r)
    \/ Stop

\* --------------------------------------------------------- specifications

\* ------------------------------------------------------------------- loader
\* Topology::from_yaml_str over the documents the YAML tokenizer returns.
\* A YAML value is a record with a tag ("hash", "array", "string", "null",
\* "scalar" for any other kind, "absent" for a key the mapping lacks).
\* Names are character sequences, because the loader joins and splits them.

Name_a == <<"a">>
Name_ab == <<"a", ":", "b">>
Iface_c == <<"c">>
Iface_bc == <<"b", ":", "c">>

Str(s) == [tag |-> "string", val |-> s]
NoField == [tag |-> "absent", val |-> <<>>]
NotString == [tag |-> "scalar", val |-> <<>>]

\* An address list: ipv4 or ipv6 of an interface. Its elements are "cidr"
\* (a string that parses), "notcidr" (a string that does not), "nonstring".
AddrArray(items) == [tag |-> "array", items |-> items]
AddrAbsent == [tag |-> "absent", items |-> <<>>]
AddrScalar == [tag |-> "scalar", items |-> <<>>]

IfaceHash(l4, l6) == [tag |-> "hash", ipv4 |-> l4, ipv6 |-> l6]
IfaceEntry(n, c) == [key |-> Str(n), config |-> c]

NodeHash(tag, items) ==
    [tag |-> "hash", interfaces |-> [tag |-> tag, items |-> items]]
OneIface(l4, l6) == NodeHash("hash", <<IfaceEntry(Iface_c, IfaceHash(l4, l6))>>)

\* name: {}                       (no interfaces key)
CfgPlain == NodeHash("absent", <<>>)
\* name: {interfaces: {c: {ipv4: [cidr], ipv6: [cidr]}}}
CfgGood == OneIface(AddrArray(<<"cidr">>), AddrArray(<<"cidr">>))
\* an IPv4 address that is not a CIDR, after one that is
CfgBad4 == OneIface(AddrArray(<<"cidr", "notcidr">>), AddrAbsent)
\* an IPv6 address that is not a CIDR
CfgBad6 == OneIface(AddrArray(<<"cidr">>), AddrArray(<<"notcidr">>))
\* an address element that is not a string, between two that are
CfgNonString == OneIface(AddrArray(<<"cidr", "nonstring", "cidr">>), AddrAbsent)
\* ipv4 is not a sequence
CfgScalarList == OneIface(AddrScalar, AddrAbsent)
\* interfaces is not a mapping
CfgScalarIfaces == NodeHash("scalar", <<>>)
\* name: {interfaces: null}
CfgNullIfaces == NodeHash("null", <<>>)
\* name: {interfaces: {c: null}}
CfgNullIface ==
    NodeHash("hash", <<IfaceEntry(Iface_c, [tag |-> "null", ipv4 |-> AddrAbsent,
                                            ipv6 |-> AddrAbsent])>>)
\* the router's or switch's config is not a mapping
CfgScalar == [tag |-> "scalar", interfaces |-> [tag |-> "absent", items |-> <<>>]]

RouterCfgs == {CfgPlain, CfgGood, CfgBad4, CfgBad6, CfgNonString,
               CfgScalarList, CfgScalarIfaces, CfgScalar}
SwitchCfgs == {CfgPlain, CfgNullIfaces, CfgNullIface, CfgGood, CfgBad4,
               CfgScalar}

NodeEntry(n, c) == [key |-> Str(n), config |-> c]

\* The routers mappings considered: "a" with any config, "a:b" well-formed.
RouterSections ==
    LET A == {<<>>} \cup {<<NodeEntry(Name_a, c)>> : c \in RouterCfgs}
        B == {<<>>} \cup {<<NodeEntry(Name_ab, c)>> : c \in {CfgPlain, CfgGood}}
    IN  {p[1] \o p[2] : p \in A \X B}
\* The switches mappings considered: at most the switch "a".
SwitchSections == {<<>>} \cup {<<NodeEntry(Name_a, c)>> : c \in SwitchCfgs}

DocEndpoints == {<<Name_a, Iface_c>>, <<Name_a, Iface_bc>>, <<Name_ab, Iface_c>>}
LinkHash(s, d) ==
    [tag |-> "hash", src_device |-> Str(s[1]), src_iface |-> Str(s[2]),
     dst_device |-> Str(d[1]), dst_iface |-> Str(d[2])]
BaseLink == LinkHash(<<Name_a, Iface_c>>, <<Name_ab, Iface_c>>)
\* Link entries: complete ones, one without dst-iface, one whose src-device is
\* not a string, one that is not a mapping.
LinkEntries ==
    {LinkHash(p[1], p[2]) : p \in DocEndpoints \X DocEndpoints}
        \cup {[BaseLink EXCEPT !.dst_iface = NoField],
              [BaseLink EXCEPT !.src_device = NotString],
              [BaseLink EXCEPT !.tag = "scalar"]}
LinkSections ==
    {<<>>} \cup {<<e>> : e \in LinkEntries}
           \cup {<<p[1], p[2]>> : p \in LinkEntries \X LinkEntries}

Group(r, s, l) == [routers |-> r, switches |-> s, links |-> l]
Groups == {Group(p[1], p[2], p[3]) :
              p \in RouterSections \X SwitchSections \X LinkSections}
\* A second YAML document that declares "a" once more.
SecondGroups == {Group(<<NodeEntry(Name_a, CfgPlain)>>, <<>>, <<>>),
                 Group(<<>>, <<NodeEntry(Name_a, CfgGood)>>, <<>>)}
Docs == {<<g>> : g \in Groups}
            \cup {<<p[1], p[2]>> : p \in Groups \X SecondGroups}

\* ---- results
Ok(v) == [ok |-> TRUE, err |-> "none", msg |-> "none", val |-> v]
Err(e, m, v) == [ok |-> FALSE, err |-> e, msg |-> m, val |-> v]

RECURSIVE KeepOk(_)
\* The values of the results that are Ok, in order (`if let Ok(x) = ...`).
KeepOk(rs) ==
    IF rs = <<>> THEN <<>>
    ELSE (IF Head(rs).ok THEN <<Head(rs).val>> ELSE <<>>) \o KeepOk(Tail(rs))

\* The `?` inside a loop: the first Err in order, or all the values.
FirstErr(rs) ==
    IF \E i \in 1..Len(rs) : ~rs[i].ok
    THEN LET i == CHOOSE i \in 1..Len(rs) :
                     ~rs[i].ok /\ \A j \in 1..(i - 1) : rs[j].ok
         IN  Err(rs[i].err, rs[i].msg, <<>>)
    ELSE Ok([i \in 1..Len(rs) |-> rs[i].val])

\* ---- devices.rs
Separator == <<"!", "!", "!", "!">>
\* str::split_once: split at the first occurrence of the separator.
split_once(s, sep) ==
    LET At(i) == i + Len(sep) - 1 <= Len(s) /\ SubSeq(s, i, i + Len(sep) - 1) = sep
    IN  IF \E i \in 1..Len(s) : At(i)
        THEN LET i == CHOOSE i \in 1..Len(s) : At(i) /\ \A j \in 1..(i - 1) : ~At(j)
             IN  Ok(<<SubSeq(s, 1, i - 1), SubSeq(s, i + Len(sep), Len(s))>>)
        ELSE Err("BasicError", "improperly formatted name", <<>>)

Interface_new(name) == [name |-> name, addresses |-> <<>>]

\* The ipv4 (ipv6) block of Interface::from_yaml_config: the while-let ends at
\* the first element that is not a string.
parse_addresses(list, family) ==
    IF list.tag = "array"
    THEN LET items == list.items
             upto == IF \E i \in 1..Len(items) : items[i] = "nonstring"
                     THEN CHOOSE i \in 1..Len(items) :
                              /\ items[i] = "nonstring"
                              /\ \A j \in 1..(i - 1) : items[j] # "nonstring"
                     ELSE Len(items) + 1
         IN  IF \E i \in 1..(upto - 1) : items[i] = "notcidr"
             THEN Err("InvalidAddress", family, <<>>)
             ELSE Ok([i \in 1..(upto - 1) |-> family])
    ELSE IF list.tag \in {"null", "absent"} THEN Ok(<<>>)
    ELSE Err("IncorrectType", "array", <<>>)

Interface_from_yaml_config(name, yaml_config) ==
    LET parts == split_once(name, Separator) IN
    IF ~parts.ok THEN parts
    ELSE LET v4 == parse_addresses(yaml_config.ipv4, "v4")
             v6 == parse_addresses(yaml_config.ipv6, "v6")
         IN  IF ~v4.ok THEN v4
             ELSE IF ~v6.ok THEN v6
             ELSE Ok([name |-> parts.val[2], addresses |-> v4.val \o v6.val])

Router_from_yaml_config(name, router_config) ==
    LET ifs == router_config.interfaces
        one(e) ==
            IF e.key.tag # "string" THEN Err("IncorrectType", "string", <<>>)
            ELSE IF e.config.tag = "hash"
            THEN Interface_from_yaml_config(name \o Separator \o e.key.val, e.config)
            ELSE IF e.config.tag = "null" THEN Ok(Interface_new(e.key.val))
            ELSE Err("IncorrectType", "hash", <<>>)
    IN  IF ifs.tag = "hash"
        THEN LET r == FirstErr([i \in 1..Len(ifs.items) |-> one(ifs.items[i])])
             IN  IF r.ok THEN Ok([name |-> name, interfaces |-> r.val]) ELSE r
        ELSE IF ifs.tag \in {"null", "absent"}
        THEN Ok([name |-> name, interfaces |-> <<>>])
        ELSE Err("IncorrectType", "hash", <<>>)

Switch_from_yaml_config(switch_name, switch_config) ==
    LET ifs == switch_config.interfaces
        one(e) ==
            IF e.key.tag # "string" THEN Err("IncorrectType", "string", <<>>)
            ELSE IF e.config.tag = "hash"
            THEN Interface_from_yaml_config(switch_name \o Separator \o e.key.val,
                                            e.config)
            ELSE Err("IncorrectType", "hash", <<>>)
    IN  IF ifs.tag = "hash"
        THEN LET r == FirstErr([i \in 1..Len(ifs.items) |-> one(ifs.items[i])])
             IN  IF r.ok THEN Ok([name |-> switch_name, interfaces |-> r.val])
                 ELSE r
        ELSE Err("IncorrectType", "hash", <<>>)

Link_src(link) == link.src_device \o <<":">> \o link.src_iface
Link_dst(link) == link.dst_device \o <<":">> \o link.dst_iface

\* ---- topology.rs
parse_router_configs(configs) ==
    IF \E i \in 1..Len(configs) :
           ~(configs[i].key.tag = "string" /\ configs[i].config.tag = "hash")
    THEN Err("IncorrectYamlType", "router", <<>>)
    ELSE Ok(KeepOk([i \in 1..Len(configs) |->
                Router_from_yaml_config(configs[i].key.val, configs[i].config)]))

parse_switch_configs(configs) ==
    Ok(KeepOk([i \in 1..Len(configs) |->
        IF configs[i].key.tag = "string" /\ configs[i].config.tag = "hash"
        THEN Switch_from_yaml_config(configs[i].key.val, configs[i].config)
        ELSE Err("skipped", "none", <<>>)]))

parse_links_configs(configs) ==
    Ok(KeepOk([i \in 1..Len(configs) |->
        LET c == configs[i] IN
        IF /\ c.tag = "hash"
           /\ c.src_device.tag = "string" /\ c.src_iface.tag = "string"
           /\ c.dst_device.tag = "string" /\ c.dst_iface.tag = "string"
        THEN Ok([src_device |-> c.src_device.val, src_iface |-> c.src_iface.val,
                 dst_device |-> c.dst_device.val, dst_iface |-> c.dst_iface.val])
        ELSE Err("skipped", "none", <<>>)]))

Topology_link_exists(ls, link) ==
    \E i \in 1..Len(ls) :
        \/ (Link_src(link) = Link_src(ls[i]) /\ Link_dst(link) = Link_dst(ls[i]))
        \/ (Link_src(link) = Link_dst(ls[i]) /\ Link_dst(link) = Link_src(ls[i]))

Topology_new == [nodes |-> <<>>, links |-> <<>>]
contains_key(ns, name) == name \in DOMAIN ns
insert(ns, name, node) ==
    [k \in DOMAIN ns \cup {name} |-> IF k = name THEN node ELSE ns[k]]

RECURSIVE insert_nodes(_, _, _)
\* The `for router in routers` (`for switch in switches`) loop.
insert_nodes(topo, kind, devs) ==
    IF devs = <<>> THEN Ok(topo)
    ELSE LET d == Head(devs) IN
         IF contains_key(topo.nodes, d.name)
         THEN Err("IoError", "node configured more than once", topo)
         ELSE insert_nodes(
                  [topo EXCEPT !.nodes = insert(topo.nodes, d.name,
                      [kind |-> kind, name |-> d.name, interfaces |-> d.interfaces])],
                  kind, Tail(devs))

\* The device checks with the one on dst_device left out.
unknown_device_src_only(ns, link) ==
    IF ~contains_key(ns, link.src_device) THEN "src" ELSE "none"

\* The two device checks made for a link, src first.
unknown_device(ns, link) ==
    IF ~contains_key(ns, link.src_device) THEN "src"
    ELSE IF ~contains_key(ns, link.dst_device) THEN "dst"
    ELSE "none"

RECURSIVE push_links(_, _)
\* The `for link in links` loop.
push_links(topo, ls) ==
    IF ls = <<>> THEN Ok(topo)
    ELSE LET link == Head(ls) IN
         IF unknown_device(topo.nodes, link) # "none"
         THEN Err("IoError", "node name does not exist", topo)
         ELSE IF Topology_link_exists(topo.links, link)
         THEN Err("IoError", "link configured more than once", topo)
         ELSE push_links([topo EXCEPT !.links = Append(topo.links, link)],
                         Tail(ls))

parse_topology_config(topo, yaml_data) ==
    LET rs == parse_router_configs(yaml_data.routers)
        t1 == IF rs.ok THEN insert_nodes(topo, "Router", rs.val) ELSE Ok(topo)
    IN  IF ~t1.ok THEN t1
        ELSE LET ss == parse_switch_configs(yaml_data.switches)
                 t2 == IF ss.ok THEN insert_nodes(t1.val, "Switch", ss.val)
                       ELSE t1
             IN  IF ~t2.ok THEN t2
                 ELSE LET ls == parse_links_configs(yaml_data.links)
                      IN  IF ls.ok THEN push_links(t2.val, ls.val) ELSE t2

RECURSIVE load_groups(_, _)
\* The `for yaml_group in yaml_content` loop with its unwrap.
load_groups(topo, groups) ==
    IF groups = <<>>
    THEN [status |-> "Ok", err |-> "none", msg |-> "none", topology |-> topo]
    ELSE LET r == parse_topology_config(topo, Head(groups)) IN
         IF r.ok THEN load_groups(r.val, Tail(groups))
         ELSE [status |-> "Panic", err |-> r.err, msg |-> r.msg,
               topology |-> Topology_new]

from_yaml_str(yaml_content) == load_groups(Topology_new, yaml_content)

NotLoaded ==
    [status |-> "none", err |-> "none", msg |-> "none", topology |-> Topology_new]
LoadIdle == yaml_str = <<>> /\ loaded = NotLoaded

InitLoad == yaml_str \in Docs /\ loaded = NotLoaded

\* The load command's call of the loader.
Load ==
    /\ loaded.status = "none"
    /\ yaml_str # <<>>
    /\ loaded' = from_yaml_str(yaml_str)
    /\ UNCHANGED <<yaml_str, engineVars, lifeVars, procVars, callVars>>

NextLoad == Load

\* ------------------------------------------------- the processes of a start
\* One start command followed through every process it forks: create_devices,
\* mount_device and enter_ns for main and for each router, the link set-up of
\* power_on, and add_device_links. A process is known by its position in
\* procs; pid is what Pid::this() returns in it, the pid it has in its own pid
\* namespace ns; forns is the pid namespace its children are born in.
PidNs == {"host", "main"} \cup RouterNames
\* The pid of the start command itself: 1 when it is the first process of a
\* container, else some other pid.
StartPids == {InitPid, 7}

ProcIdle ==
    /\ procs = <<>>
    /\ nspids = [n \in PidNs |-> InitPid]
    /\ setups = <<>>

InitProcs ==
    \E p0 \in StartPids : \E R \in SUBSET RouterNames :
        /\ procs = << [pc |-> "create_devices", parent |-> 0, via |-> "shell",
                       ns |-> "host", pid |-> p0, forns |-> "host",
                       saved |-> 0, check |-> "none", dev |-> "main",
                       todo |-> SortedRouters(R), waitfor |-> 0, out |-> "none"] >>
        /\ nspids = [n \in PidNs |-> IF n = "host" THEN p0 + 1 ELSE InitPid]
        /\ setups = <<>>

Procs == 1..Len(procs)
\* A start forks, besides itself, the create_devices child, a holder and an
\* enter_ns child for main and for each router, and two add_device_links
\* children.
ProcIds == 1..(2 * Len(NameOrder) + 6)
Exited(q) == procs[q].pc = "exited"

\* fork(): the parent goes on as record after, the child starts as record
\* child in the pid namespace the parent's children are born in, with the
\* next pid of that namespace.
fork(q, after, child) ==
    LET ns == after.forns IN
    /\ procs' = Append([procs EXCEPT ![q] = after],
                       [child EXCEPT !.parent = q, !.ns = ns, !.forns = ns,
                                     !.pid = nspids[ns], !.waitfor = 0])
    /\ nspids' = [nspids EXCEPT ![ns] = @ + 1]

Exit(p, how) == [p EXCEPT !.pc = "exited", !.out = how]

\* create_devices: fork; the child goes to mount_device(None), the parent to
\* waitpid(child).
create_devices_fork(q) ==
    /\ q \in Procs
    /\ procs[q].pc = "create_devices"
    /\ fork(q, [procs[q] EXCEPT !.pc = "wait_create_devices",
                                !.waitfor = Len(procs) + 1],
               [procs[q] EXCEPT !.pc = "mount", !.via = "create_devices",
                                !.dev = "main"])
    /\ UNCHANGED <<setups, engineVars, lifeVars, loadVars, callVars>>

\* mount_device: unshare(NEWNET | NEWPID) and fork; the child is the holder,
\* the first process of the new pid namespace, which runs create_ns and
\* pauses.
mount_device_holder(q) ==
    /\ q \in Procs
    /\ procs[q].pc = "mount"
    /\ fork(q, [procs[q] EXCEPT !.pc = "enter", !.forns = procs[q].dev],
               [procs[q] EXCEPT !.pc = "paused", !.via = "holder",
                                !.todo = <<>>])
    /\ UNCHANGED <<setups, engineVars, lifeVars, loadVars, callVars>>

\* enter_ns(None) up to its fork: setns into main/net and main/pid, read
\* Pid::this(), fork. A failed fork returns the Fork error, which ends the
\* process through the ? of its callers.
enter_ns_fork(q) ==
    /\ q \in Procs
    /\ procs[q].pc = "enter"
    /\ \E f \in FaultChoices({"fork"}) :
        /\ faults' = Charge(f)
        /\ IF f = "fork"
           THEN /\ procs' = [procs EXCEPT ![q] = Exit(@, "err")]
                /\ UNCHANGED nspids
           ELSE LET entered == [procs[q] EXCEPT !.forns = "main",
                                                !.saved = procs[q].pid]
                IN  fork(q, [entered EXCEPT !.pc = "wait_enter",
                                            !.waitfor = Len(procs) + 1],
                            [entered EXCEPT !.pc = "check", !.via = "enter"])
    /\ UNCHANGED <<setups, engineRest, lifeVars, loadVars, callVars>>

\* What a process does when enter_ns has returned Ok to mount_device: for
\* main, create_devices writes PID_FILE and power_on starts on the routers;
\* for a router the loop of power_on goes to the next router; after the last
\* one power_on calls setup_links.
after_mount_device(p) ==
    LET rest == IF p.dev = "main" THEN p.todo ELSE Tail(p.todo) IN
    [p EXCEPT !.todo = rest,
              !.pc = IF rest = <<>> THEN "setup_links" ELSE "mount",
              !.dev = IF rest = <<>> THEN "main" ELSE Head(rest)]

\* The end of enter_ns: `if Pid::this() == pid { exit(0) }`, then Ok(()).
after_enter_fork(p) ==
    IF p.pid = p.saved THEN Exit(p, "exit0") ELSE after_mount_device(p)

\* enter_ns in the child of its fork.
enter_ns_child(q) ==
    /\ q \in Procs
    /\ procs[q].pc = "check"
    /\ LET p == after_enter_fork(procs[q]) IN
       procs' = [procs EXCEPT ![q] =
                    [p EXCEPT !.check = IF p.pc = "exited" THEN "exited"
                                        ELSE "continued"]]
    /\ UNCHANGED <<nspids, setups, engineVars, lifeVars, loadVars, callVars>>

\* enter_ns in the parent of its fork: waitpid(child), then the comparison.
enter_ns_parent(q) ==
    /\ q \in Procs
    /\ procs[q].pc = "wait_enter"
    /\ Exited(procs[q].waitfor)
    /\ procs' = [procs EXCEPT ![q] = after_enter_fork(@)]
    /\ UNCHANGED <<nspids, setups, engineVars, lifeVars, loadVars, callVars>>

\* Topology::power_on after the node loop: self.setup_links() in the process
\* that powered the last node on; create_devices then returns Ok to main in
\* that process, which goes on to add_device_links.
power_on_setup_links(q) ==
    /\ q \in Procs
    /\ procs[q].pc = "setup_links"
    /\ setups' = Append(setups, q)
    /\ procs' = [procs EXCEPT ![q].pc = "add_device_links"]
    /\ UNCHANGED <<nspids, engineVars, lifeVars, loadVars, callVars>>

\* create_devices in the start command: waitpid(child) returns when the child
\* has ended, whatever its status, and main goes on to add_device_links.
create_devices_wait(q) ==
    /\ q \in Procs
    /\ procs[q].pc = "wait_create_devices"
    /\ Exited(procs[q].waitfor)
    /\ procs' = [procs EXCEPT ![q].pc = "add_device_links"]
    /\ UNCHANGED <<nspids, setups, engineVars, lifeVars, loadVars, callVars>>

\* add_device_links: fork; the parent waits for the child.
add_device_links_fork(q) ==
    /\ q \in Procs
    /\ procs[q].pc = "add_device_links"
    /\ fork(q, [procs[q] EXCEPT !.pc = "wait_links", !.waitfor = Len(procs) + 1],
               [procs[q] EXCEPT !.pc = "links_child", !.via = "add_device_links"])
    /\ UNCHANGED <<setups, engineVars, lifeVars, loadVars, callVars>>

\* add_device_links in the child: setns into main/net, topology.setup_links(),
\* Ok(()) to main, and the process ends.
add_device_links_child(q) ==
    /\ q \in Procs
    /\ procs[q].pc = "links_child"
    /\ setups' = Append(setups, q)
    /\ procs' = [procs EXCEPT ![q] = Exit(@, "ok")]
    /\ UNCHANGED <<nspids, engineVars, lifeVars, loadVars, callVars>>

\* add_device_links in the parent: waitpid(child), Ok(()) to main.
add_device_links_wait(q) ==
    /\ q \in Procs
    /\ procs[q].pc = "wait_links"
    /\ Exited(procs[q].waitfor)
    /\ procs' = [procs EXCEPT ![q] = Exit(@, "ok")]
    /\ UNCHANGED <<nspids, setups, engineVars, lifeVars, loadVars, callVars>>

NextProc ==
    \E q \in ProcIds :
        \/ create_devices_fork(q)
        \/ mount_device_holder(q)
        \/ enter_ns_fork(q)
        \/ enter_ns_child(q)
        \/ enter_ns_parent(q)
        \/ power_on_setup_links(q)
        \/ create_devices_wait(q)
        \/ add_device_links_fork(q)
        \/ add_device_links_child(q)
        \/ add_device_links_wait(q)

\* ---------------------------------------------------- one call of in_ns
\* Router::in_ns called once for the router at the cursor, by a thread in
\* namespace cur_ns, on every state of Router.file_path and of the anchors.

\* An in_ns that runs the closure where it stands when setns into the router
\* fails.
in_ns_runs_after_failed_entry(n, ns, f) ==
    IF ~file_path[n] THEN [res |-> "NotFound", ran |-> <<>>, ns |-> ns]
    ELSE IF anchor[n] # "mounted" \/ f = "open"
    THEN [res |-> "FileOpen", ran |-> <<>>, ns |-> ns]
    ELSE IF f = "enter" THEN [res |-> "Entry", ran |-> <<ns>>, ns |-> ns]
    ELSE IF f = "reopen" THEN [res |-> "BasicError", ran |-> <<n>>, ns |-> n]
    ELSE IF f = "return" THEN [res |-> "ReturnToMain", ran |-> <<n>>, ns |-> n]
    ELSE [res |-> "Ok", ran |-> <<n>>, ns |-> 0]

\* Router::in_ns for router n, called in namespace ns, with failure f: what
\* it returns, where the closure ran, and the thread's namespace afterwards.
in_ns(n, ns, f) ==
    IF ~file_path[n] THEN [res |-> "NotFound", ran |-> <<>>, ns |-> ns]
    ELSE IF anchor[n] # "mounted" \/ f = "open"
    THEN [res |-> "FileOpen", ran |-> <<>>, ns |-> ns]
    ELSE IF f = "enter" THEN [res |-> "Entry", ran |-> <<>>, ns |-> ns]
    ELSE IF f = "reopen" THEN [res |-> "BasicError", ran |-> <<n>>, ns |-> n]
    ELSE IF f = "return" THEN [res |-> "ReturnToMain", ran |-> <<n>>, ns |-> n]
    ELSE [res |-> "Ok", ran |-> <<n>>, ns |-> 0]

CallIdle == returned = "none" /\ ran = <<>>

\* The states in_ns can be called in: a router is powered on or not, its
\* anchor is mounted or not (power_on records the path also when no holder
\* was forked, and a holder may mount the anchor of a router whose power_on
\* failed afterwards), and the thread is in main or was left in a router's
\* namespace by an earlier call.
InitInNs ==
    /\ impl = "LinkManager"
    /\ nodes = [n \in NodeIds |-> "Router"]
    /\ links = <<>>
    /\ pc = "in_ns"
    /\ cursor \in NodeIds
    /\ phase = "veth"
    /\ kifaces = <<>>
    /\ file_path \in [NodeIds -> BOOLEAN]
    /\ anchor \in [NodeIds -> {"absent", "mounted"}]
    /\ sw_ifindex = [n \in NodeIds |-> 0]
    /\ loUp = [n \in NodeIds |-> FALSE]
    /\ addrs = {}
    /\ cur_ns \in {0} \cup NodeIds
    /\ linkResult = <<>>
    /\ log = <<>>
    /\ faults = 0
    /\ InitLife(0) /\ LoadIdle /\ ProcIdle /\ CallIdle

in_ns_call ==
    /\ pc = "in_ns"
    /\ \E f \in FaultChoices({"open", "enter", "reopen", "return"}) :
        LET r == in_ns(cursor, cur_ns, f) IN
        /\ faults' = Charge(f)
        /\ returned' = r.res
        /\ ran' = ran \o r.ran
        /\ cur_ns' = r.ns
    /\ pc' = "returned"
    /\ UNCHANGED <<impl, nodes, links, cursor, phase, kifaces, file_path,
                   anchor, sw_ifindex, loUp, addrs, linkResult, log,
                   lifeVars, loadVars, procVars>>

NextInNs == in_ns_call
SpecInNs == InitInNs /\ [][NextInNs]_vars

\* The engine's power-on alone: no start or stop command runs.
Init == InitEngine /\ InitLife(0) /\ LoadIdle /\ ProcIdle /\ CallIdle
Next == NextEngine
Spec == Init /\ [][Next]_vars

\* The commands alone: the engine's power-on is at rest on an empty document.
EngineIdle ==
    /\ impl = "Topology"
    /\ nodes = [n \in NodeIds |-> "Router"]
    /\ links = <<>>
    /\ pc = "done"
    /\ cursor = 0
    /\ phase = "veth"
    /\ kifaces = <<>>
    /\ file_path = [n \in NodeIds |-> FALSE]
    /\ anchor = [n \in NodeIds |-> "absent"]
    /\ sw_ifindex = [n \in NodeIds |-> 0]
    /\ loUp = [n \in NodeIds |-> FALSE]
    /\ addrs = {}
    /\ cur_ns = 0
    /\ linkResult = <<>>
    /\ log = <<>>

\* No failure is injected into the commands.
InitEngineIdle == EngineIdle /\ faults = MaxFaults

\* Start commands one after the other, stops between them.
InitSeq == InitEngineIdle /\ InitLife(1) /\ LoadIdle /\ ProcIdle /\ CallIdle
SpecLife == InitSeq /\ [][NextLife]_vars

\* Two start commands at once, neither interrupted, stops after them.
NextRace ==
    \/ \E i \in Invocations :
        \/ StartGuard(i)
        \/ StartLoad(i)
        \/ create_devices(i)
        \/ mount_device_fork(i)
        \/ mount_device_return(i)
        \/ WritePidFile(i)
        \/ SetupLinks(i)
        \/ \E d \in Dev :
            \/ create_ns_anchor(i, d)
            \/ create_ns_mount_net(i, d)
            \/ create_ns_mount_pid(i, d)
            \/ create_ns_write_pid(i, d)
    \/ Stop
InitRace == InitEngineIdle /\ InitLife(2) /\ LoadIdle /\ ProcIdle /\ CallIdle
SpecRace == InitRace /\ [][NextRace]_vars



\* Start commands one after the other, with failures injected into create_ns.
NextFault ==
    \E i \in Invocations :
        \/ StartGuard(i)
        \/ StartLoad(i)
        \/ create_devices(i)
        \/ mount_device_fork(i)
        \/ mount_device_return(i)
        \/ WritePidFile(i)
        \/ SetupLinks(i)
        \/ \E d \in Dev :
            \/ create_ns_anchor(i, d)
            \/ create_ns_mount_net(i, d)
            \/ create_ns_mount_pid(i, d)
            \/ create_ns_write_pid(i, d)
            \/ mount_device_child(i, d)
InitFault == EngineIdle /\ faults = 0 /\ InitLife(1) /\ LoadIdle /\ ProcIdle /\ CallIdle
SpecFault == InitFault /\ [][NextFault]_vars

\* The loader alone, on every document considered.
InitLoadOnly == InitEngineIdle /\ InitLife(0) /\ InitLoad /\ ProcIdle /\ CallIdle
SpecLoad == InitLoadOnly /\ [][NextLoad]_vars

\* One start command, process by process, with at most one failed fork.
InitProcOnly == EngineIdle /\ faults = 0 /\ InitLife(0) /\ LoadIdle /\ InitProcs /\ CallIdle
SpecProc == InitProcOnly /\ [][NextProc]_vars

\* --------------------------------------------------------- lifecycle: claims

\* C4: a start that finds main/.pid is refused at its first step: the step
\* loads no document and creates or changes no directory, anchor, mount, pid
\* file, process, bridge, veth or address, and a refused start does nothing
\* afterwards.
C4_RefusedBeforeAnything ==
    [][\A i \in Invocations :
          /\ (inv[i].pc = "idle" /\ inv'[i].pc # "idle"
                  /\ fs["main"].dotpid # NoFile)
                => /\ inv'[i].pc = "refused"
                   /\ inv'[i].topo = {}
                   /\ UNCHANGED <<top, fs, holder, alive, nextPid, engineVars, loadVars, callVars, procVars>>
          /\ inv[i].pc = "refused" => inv'[i] = inv[i]]_vars

\* C4 witness: a start was refused while main/.pid exists.
C4_Witness ==
    \E i \in Invocations : inv[i].pc = "refused" /\ fs["main"].dotpid # NoFile

\* C5: of the starts that passed the guard since the last stop, at most one
\* goes on to materialize its document to the end.
C5_AtMostOnePasses ==
    Cardinality({i \in passed : inv[i].pc = "done"}) <= 1

\* C6: whenever stop can run, a second stop on the same document leaves the
\* filesystem as the first one left it.
C6_StopTwice ==
    (Quiescent /\ Settled) =>
        \A R \in SUBSET RouterNames :
            LET once == stop(Sys, "ok", R)
                twice == stop(once, "ok", R)
            IN  twice.fs = once.fs

\* C7: after one complete start and a stop on the same document the
\* filesystem is as it was before the start (no anchor file, bind mount, pid
\* file or device directory remains), so that a second start is accepted.
C7_StartStopRestores ==
    (/\ inv[1].pc = "done" /\ inv[2].pc = "idle"
     /\ last.res = "ok" /\ last.doc = inv[1].topo)
        => fs = [d \in Dev |-> Absent]

\* C8: a stop on a loadable document runs to its end and leaves nothing of
\* any router the document names, whether or not a router's .pid file is
\* missing or its holder is dead.
C8_TeardownTolerant ==
    last.res = "ok" => \A r \in last.doc : fs[r] = Absent

\* C8 witness: a stop ran on two routers that both had their directory, one
\* without its .pid file and the other with it.
C8_Witness ==
    /\ last.res = "ok"
    /\ \E r, q \in last.doc :
          /\ last.fs[r].home /\ last.fs[r].dotpid = NoFile
          /\ last.fs[q].home /\ last.fs[q].dotpid # NoFile
          /\ fs[r] = Absent /\ fs[q] = Absent

HolderPids == {holder[i][d].pid : i \in Invocations, d \in Dev} \ {0}

\* C9: stop sends SIGKILL to holders only, and after a stop no holder, of a
\* router the document names or of main, is alive.
C9_KillHitsHolder ==
    last.res = "ok" =>
        /\ killed \subseteq HolderPids
        /\ \A i \in Invocations : \A d \in last.doc \cup {"main"} :
               holder[i][d].pid \notin alive

\* C10: mount_device returns its anchor path only when the holder has
\* created and mounted the anchor and written .pid, and the link set-up finds
\* the anchor of every router present and mounted.
C10_ReturnAfterHolderReady ==
    [][\A i \in Invocations :
          /\ (inv[i].pc = "enter" /\ inv'[i].pc \in {"write_pid", "mount", "links"})
                => holder[i][inv[i].dev].st = "paused"
          /\ (inv[i].pc = "links" /\ inv'[i].pc = "done")
                => \A r \in inv[i].topo : AnchorUsable(r)]_vars


\* The exit status of the start command, from where its main ended: main
\* returns Err (status 1) at the guard and when parse_config_args returns Err,
\* panics (status 101) when parse_config_args unwraps an Err, and otherwise
\* returns Ok (status 0), since create_devices and add_device_links drop the
\* status waitpid reports for their forked children.
exit_status(v) ==
    IF v.pc = "refused" THEN 1
    ELSE IF v.pc = "panicked" THEN 101
    ELSE IF v.pc = "failed" /\ v.child = 0 THEN 1
    ELSE 0

\* C14: a start ends with status 0 exactly when it materialized its whole
\* document, 1 when the document was not accepted, 2 when a step of power-on
\* failed, 3 when the guard found main/.pid.
C14_ExitStatus ==
    \A i \in Invocations :
        LET v == inv[i] IN
        /\ v.pc = "done" => exit_status(v) = 0
        /\ v.pc = "refused" => exit_status(v) = 3
        /\ (v.pc = "panicked" \/ (v.pc = "failed" /\ v.child = 0))
              => exit_status(v) = 1
        /\ (v.pc = "failed" /\ v.child # 0) => exit_status(v) = 2


C23_FailedLoadNoEffects ==
    [][\A i \in Invocations :
          (inv[i].pc = "load" /\ inv'[i].pc \in {"failed", "panicked"})
              => (top' = top /\ fs' = fs /\ alive' = alive /\ holder' = holder)]_vars

\* C29: stop is the recovery from every state a start leaves behind: when a
\* stop has run, whatever its document did, main/.pid is absent.
C29_StopRemovesPidFile ==
    last.res # "none" => fs["main"].dotpid = NoFile


\* Every process of the start has ended or is a holder in pause().
StartOver == \A q \in Procs : procs[q].pc \in {"exited", "paused"}

\* C35: during one start setup_links runs in exactly one of the processes the
\* start forks: never in a second one, and in one when the start has ended
\* without an error.
C35_SetupLinksOnce ==
    /\ Len(setups) <= 1
    /\ (StartOver /\ \A q \in Procs : procs[q].out # "err") => Len(setups) = 1

\* C36: every fork of enter_ns leaves exactly one process going on: the child
\* passes the pid comparison and carries on, and the parent, once its wait is
\* over, has exited at the comparison, whatever pids the two have.
C36_EnterNsOneContinues ==
    \A g \in Procs :
        procs[g].via = "enter" =>
            LET p == procs[procs[g].parent] IN
            /\ procs[g].check # "exited"
            /\ p.pc # "wait_enter" => (p.pc = "exited" /\ p.out = "exit0" /\ Exited(g))

NotEntered == {"NotFound", "FileOpen", "Entry"}

\* C37: in_ns never runs the closure outside the router's namespace: a router
\* without a recorded anchor gives NotFound, an anchor that cannot be opened
\* FileOpen, a failed setns Entry, and in these three cases the closure has
\* not run and the thread is in the namespace it called from; when the
\* closure runs, it runs in the router's namespace.
C37_ClosureOnlyInside ==
    [][/\ \A i \in 1..Len(ran') : ran'[i] = cursor
       /\ returned' \in NotEntered => (ran' = <<>> /\ cur_ns' = cur_ns)
       /\ ~file_path[cursor] => returned' = "NotFound"
       /\ (file_path[cursor] /\ anchor[cursor] # "mounted") => returned' = "FileOpen"
       /\ returned' \notin NotEntered => ran' = <<cursor>>]_vars

\* C37 witness: a router whose anchor is there, called from the namespace of
\* the other router; setns fails, in_ns has returned Entry, the closure has
\* not run and the thread is where it was.
C37_Witness ==
    /\ returned = "Entry"
    /\ file_path[cursor] /\ anchor[cursor] = "mounted"
    /\ cur_ns \in NodeIds \ {cursor}
    /\ ran = <<>>

\* ------------------------------------------------------------ loader: claims

\* What the document says, read off the document itself.
Decls ==
    {<<g, "routers", i>> : g \in 1..Len(yaml_str), i \in 1..2}
        \cup {<<g, "switches", i>> : g \in 1..Len(yaml_str), i \in 1..2}
DeclAt(d) ==
    LET sec == IF d[2] = "routers" THEN yaml_str[d[1]].routers
               ELSE yaml_str[d[1]].switches
    IN  IF d[3] <= Len(sec) THEN <<sec[d[3]]>> ELSE <<>>
NodeDecls == {d \in Decls : DeclAt(d) # <<>>}
DeclEntry(d) == DeclAt(d)[1]
DeclaredNames == {DeclEntry(d).key.val : d \in NodeDecls}
DeclaredTwice ==
    \E d, e \in NodeDecls : d # e /\ DeclEntry(d).key.val = DeclEntry(e).key.val
LinkDecls == {<<g, i>> \in (1..Len(yaml_str)) \X (1..2) : i <= Len(yaml_str[g].links)}
LinkEntry(p) == yaml_str[p[1]].links[p[2]]
Fields(e) == <<e.src_device, e.src_iface, e.dst_device, e.dst_iface>>
CompleteLink(e) == e.tag = "hash" /\ \A k \in 1..4 : Fields(e)[k].tag = "string"
IncompleteLink(e) == e.tag = "hash" /\ \E k \in 1..4 : Fields(e)[k].tag # "string"
Ends(e) == {<<e.src_device.val, e.src_iface.val>>, <<e.dst_device.val, e.dst_iface.val>>}
IfaceDecls(c) == IF c.tag = "hash" /\ c.interfaces.tag = "hash"
                 THEN {c.interfaces.items[i] : i \in 1..Len(c.interfaces.items)}
                 ELSE {}
AddrLists(c) == UNION {{f.config.ipv4, f.config.ipv6} : f \in IfaceDecls(c)}
HasAddress(c, a) == \E l \in AddrLists(c) : \E i \in 1..Len(l.items) : l.items[i] = a
WrongKind(c) ==
    \/ c.tag # "hash"
    \/ c.interfaces.tag = "scalar"
    \/ \E l \in AddrLists(c) : l.tag = "scalar"
    \/ HasAddress(c, "nonstring")
Accepted == loaded.status = "Ok"
Rejected == loaded.status = "Panic"
Nodes == loaded.topology.nodes

\* C15: a document that declares a node name twice (a switch with the name of a
\* router, or a name declared again in a later YAML document) is rejected, and
\* in an accepted Topology every key of the node table maps to the node of
\* that name.
C15_DuplicateNodeRejected ==
    /\ (loaded.status # "none" /\ DeclaredTwice) => Rejected
    /\ Accepted => \A n \in DOMAIN Nodes : Nodes[n].name = n

C17_DuplicateLinkExactly ==
    /\ Accepted =>
          \A i, j \in 1..Len(loaded.topology.links) :
              LET l == loaded.topology.links[i]
                  m == loaded.topology.links[j]
              IN  i # j => {<<l.src_device, l.src_iface>>, <<l.dst_device, l.dst_iface>>}
                             # {<<m.src_device, m.src_iface>>, <<m.dst_device, m.dst_iface>>}
    /\ (Rejected /\ loaded.msg = "link configured more than once") =>
          \E p, q \in LinkDecls :
              /\ p # q
              /\ CompleteLink(LinkEntry(p)) /\ CompleteLink(LinkEntry(q))
              /\ Ends(LinkEntry(p)) = Ends(LinkEntry(q))

\* C18: a document with an IPv4 or IPv6 address that does not parse as a CIDR
\* is rejected by the loader with InvalidAddress.
C18_InvalidAddressRejected ==
    (loaded.status # "none"
        /\ \E d \in NodeDecls : HasAddress(DeclEntry(d).config, "notcidr"))
        => Rejected /\ loaded.err = "InvalidAddress"

\* C19: a document with a link entry that lacks one of src-device, src-iface,
\* dst-device, dst-iface, or gives a non-string for one, makes the loader fail
\* with MissingField.
C19_IncompleteLinkRejected ==
    (loaded.status # "none" /\ \E p \in LinkDecls : IncompleteLink(LinkEntry(p)))
        => Rejected /\ loaded.err = "MissingField"

\* C20: no partial acceptance: in an accepted Topology every router and switch
\* entry is a node of its kind with every interface and every address of the
\* entry, and every link entry is a link; a document with an entry of the
\* wrong kind is rejected with IncorrectType.
C20_NoPartialAcceptance ==
    /\ Accepted =>
          /\ \A d \in NodeDecls :
                LET e == DeclEntry(d)
                    n == e.key.val
                    its == e.config.interfaces.items
                IN  /\ n \in DOMAIN Nodes
                    /\ Nodes[n].kind = (IF d[2] = "routers" THEN "Router" ELSE "Switch")
                    /\ Len(Nodes[n].interfaces) = Len(its)
                    /\ \A i \in 1..Len(its) :
                          Len(Nodes[n].interfaces[i].addresses)
                              = Len(its[i].config.ipv4.items) + Len(its[i].config.ipv6.items)
          /\ Len(loaded.topology.links) = Cardinality(LinkDecls)
    /\ (loaded.status # "none" /\ \E d \in NodeDecls : WrongKind(DeclEntry(d).config))
          => Rejected /\ loaded.err = "IncorrectType"

\* A document the format allows: every router and switch entry is a mapping
\* whose interfaces key is absent, null or a mapping of interfaces that are
\* null or carry address lists that parse; no name is declared twice; every
\* link entry is complete, names declared devices, and no two link entries
\* share an endpoint.
ValidCfgs == {CfgPlain, CfgNullIfaces, CfgNullIface, CfgGood}
ValidDoc ==
    /\ \A d \in NodeDecls : DeclEntry(d).config \in ValidCfgs
    /\ ~DeclaredTwice
    /\ \A p \in LinkDecls :
          LET e == LinkEntry(p) IN
          /\ CompleteLink(e)
          /\ {e.src_device.val, e.dst_device.val} \subseteq DeclaredNames
          /\ Cardinality(Ends(e)) = 2
          /\ \A q \in LinkDecls : q # p => Ends(LinkEntry(q)) \cap Ends(e) = {}
AddressesOf(ic) ==
    [i \in 1..Len(ic.ipv4.items) |-> "v4"] \o [i \in 1..Len(ic.ipv6.items) |-> "v6"]

\* C21: a document the format allows is accepted, and the Topology has
\* exactly the declared routers and switches, each with its interfaces and
\* each interface with its ipv4 list followed by its ipv6 list, and exactly
\* the declared links.
C21_ValidDocumentLoaded ==
    (loaded.status # "none" /\ ValidDoc) =>
        /\ Accepted
        /\ DOMAIN Nodes = DeclaredNames
        /\ \A d \in NodeDecls :
              LET e == DeclEntry(d)
                  n == e.key.val
                  its == e.config.interfaces.items
              IN  /\ Nodes[n].kind = (IF d[2] = "routers" THEN "Router" ELSE "Switch")
                  /\ Len(Nodes[n].interfaces) = Len(its)
                  /\ \A i \in 1..Len(its) :
                        /\ Nodes[n].interfaces[i].name = its[i].key.val
                        /\ Nodes[n].interfaces[i].addresses = AddressesOf(its[i].config)
        /\ Len(loaded.topology.links) = Cardinality(LinkDecls)

\* C22: a document that is one switch entry of an allowed shape yields a
\* switch exactly when Router::from_yaml_config accepts the same config, and
\* the switch then has the interfaces the router would have.
C22_SwitchShapeAsRouter ==
    (/\ loaded.status # "none"
     /\ Len(yaml_str) = 1
     /\ yaml_str[1].routers = <<>> /\ yaml_str[1].links = <<>>
     /\ Len(yaml_str[1].switches) = 1
     /\ yaml_str[1].switches[1].config \in ValidCfgs)
        => LET e == yaml_str[1].switches[1]
               r == Router_from_yaml_config(e.key.val, e.config)
           IN  /\ Accepted
               /\ r.ok <=> e.key.val \in DOMAIN Nodes
               /\ e.key.val \in DOMAIN Nodes
                     => Nodes[e.key.val].interfaces = r.val.interfaces

\* C30: in an accepted Topology no (device, iface) endpoint belongs to two
\* links and no link joins an endpoint to itself.
C30_EndpointUsedOnce ==
    Accepted =>
        \A i, j \in 1..Len(loaded.topology.links) :
            LET l == loaded.topology.links[i]
                m == loaded.topology.links[j]
            IN  /\ <<l.src_device, l.src_iface>> # <<l.dst_device, l.dst_iface>>
                /\ i # j =>
                      {<<l.src_device, l.src_iface>>, <<l.dst_device, l.dst_iface>>}
                        \cap {<<m.src_device, m.src_iface>>,
                              <<m.dst_device, m.dst_iface>>} = {}

====
